---- MODULE Spec2Model ----
(***************************************************************************)
(* Session cache (login / logout / register), OMS and API session drivers  *)
(* of moneybotsapi-js, as a state machine.                                 *)
(*                                                                         *)
(* The server is a single-threaded event loop: the code between two        *)
(* `await`s of a handler runs atomically, and handlers of different        *)
(* requests interleave at their awaits.  Every action below is one such    *)
(* atomic stretch of one handler.  A request slot p carries the locals of  *)
(* the handler invocation it runs.                                         *)
(***************************************************************************)
EXTENDS Integers, Sequences, FiniteSets, TLC

(* ------------------------------ bounds --------------------------------- *)
\* total number of requests the clients send in the full environment
MaxRequests == 4
\* total number of requests the clients send in the reduced environment
MaxLeanRequests == 5
\* last second the wall clock reaches
MaxClock == 1
\* number of SQLite statements that may raise under SpecFaults and SpecRefresh
MaxDbFaults == 1
\* greatest number of data rows of an upstream instruments feed
MaxFeedRows == 2
\* total number of refresh and query requests the clients send under SpecRefresh
MaxInstrumentRequests == 3

\* concurrent request slots
Procs == {"p1", "p2"}
\* user ids the clients and the broker use
Users == {"u1", "u2"}
\* the password accounts register with ("pw2" is the one a login gets wrong)
Passwords == {"pw1"}
\* secrets as character sequences: one valid base32, one with a foreign character
TotpSecrets == { <<"J", "B">>, <<"J", "!">> }
\* (api_key, api_secret) pairs of a login form; "" is a missing field
ApiCreds == { <<"", "">>, <<"k1", "s1">> }

(* --------------------------- optional values --------------------------- *)
\* null / undefined of the source, and a present value
Null == << >>
Some(x) == << x >>
\* JavaScript truthiness of a nullable, non-empty string
Truthy(x) == x # Null

VARIABLES
  kite_users,     \* table kite_users: set of rows
  kite_sessions,  \* table kite_sessions: rows in insertion (rowid) order
  kite_instruments, \* table kite_instruments: rows in insertion (id) order
  now,            \* wall clock, in seconds
  dbFaults,       \* SQLite statements that may still raise
  started,        \* requests sent so far
  rid,            \* per slot: the number of the request served (0: none yet)
  account,        \* per slot: the user_id field of the request served
  lean,           \* the environment is the reduced one (see Environment)
  fn,             \* a function of the program applied on its own: name, arguments, result
  windowLogins,   \* per account: login POSTs since the cache was last found invalid
  pc,             \* per slot: the await the handler is suspended at
  op,             \* per slot: the handler running
  loc,            \* per slot: the locals of the running handler invocation
  calls,          \* per slot: upstream endpoints fetched and their answers, in order
  requests,       \* per slot: what was sent to those endpoints, in order
  writes,         \* per slot: statements run on kite_sessions (bound user_id, rows changed)
  began,          \* per slot: the clock when the refresh or query served last arrived
  obtained,       \* per request: the credentials of the login that stored a session
  resp            \* per slot: the Response returned

vars == << kite_users, kite_sessions, kite_instruments, now, dbFaults, started, lean, fn, rid, account,
           windowLogins, pc, op, loc, calls, requests, writes, resp >>

(* ------------------------------ responses ------------------------------ *)
\* JSON.stringify drops the properties whose value is undefined
JSONStringify(obj) ==
  [json |-> { << k, obj[k][1] >> : k \in { f \in DOMAIN obj : obj[f] # Null } }]
JSONParse(text) ==
  [k \in { kv[1] : kv \in text.json } |-> Some((CHOOSE kv \in text.json : kv[1] = k)[2])]

NoData == [json |-> {}]
NoResp == [status |-> "none", http |-> 0, error_type |-> "", message |-> "", data |-> NoData]

successResponse(data) ==
  [status |-> "success", http |-> 200, error_type |-> "", message |-> "",
   data |-> JSONStringify(data)]
errorResponse(error_type, message, statusCode) ==
  [status |-> "error", http |-> statusCode, error_type |-> error_type,
   message |-> message, data |-> NoData]
inputError(message) == errorResponse("InputException", message, 400)
\* faulty variant of authError: the failure is reported as a general error
authErrorAsGeneral(message) == errorResponse("GeneralException", message, 500)
authError(message) == errorResponse("AuthenticationException", message, 401)
dbError(message) == errorResponse("DatabaseException", message, 500)

(* ------------------------------ upstream ------------------------------- *)
\* what a fetch gives: a response with a status, or an exception (threw)
Answer(status) == [threw |-> FALSE, status |-> status]
Threw == [threw |-> TRUE, status |-> 0]
\* Response.ok
ResponseOk(r) == ~r.threw /\ r.status >= 200 /\ r.status <= 299

(* Environment.  The full environment sends every request of the sets below and  *)
(* answers every upstream call in every way the code distinguishes.  The reduced *)
(* one (lean), used where requests overlap, sends forms with valid fields only;  *)
(* in it the probe and the upstream invalidation succeed or fail, and the calls  *)
(* of a fresh login succeed.                                                     *)
ProbeOutcomes == { Answer(200), Answer(403) } \cup (IF lean THEN {} ELSE { Threw })

\* fetch("https://kite.zerodha.com/api/login"): exception, non-2xx, or a JSON body
\* {status, data: {user_id, request_id, twofa_type}}
\* the broker names the account in data.user_id: form_user is the one the form
\* names
LoginOutcomes(form_user) ==
  IF lean
  THEN { [ans |-> Answer(200), status |-> "success", user_id |-> form_user] }
  ELSE { [ans |-> Threw, status |-> "error", user_id |-> ""],
         [ans |-> Answer(403), status |-> "error", user_id |-> ""],
         [ans |-> Answer(200), status |-> "error", user_id |-> ""] }
       \cup { [ans |-> Answer(200), status |-> "success", user_id |-> u] : u \in Users }

\* fetch("https://kite.zerodha.com/api/twofa"): as above; the Set-Cookie batch of a
\* successful answer carries the enctoken cookie, or does not
TwofaOutcomes ==
  { [ans |-> Answer(200), status |-> "success", enctoken_cookie |-> TRUE] }
  \cup (IF lean THEN {}
        ELSE { [ans |-> Threw, status |-> "error", enctoken_cookie |-> FALSE],
               [ans |-> Answer(403), status |-> "error", enctoken_cookie |-> FALSE],
               [ans |-> Answer(200), status |-> "error", enctoken_cookie |-> FALSE],
               [ans |-> Answer(200), status |-> "success", enctoken_cookie |-> FALSE] })

\* a redirect-chase answer: status, and the query parameter the Location header
\* carries (location: Null = no header; Some(Null) = header without the parameter)
RedirectOutcomes ==
  { [ans |-> Answer(302), location |-> Some(Some("v"))] }
  \cup (IF lean THEN {}
        ELSE { [ans |-> Threw, location |-> Null],
               [ans |-> Answer(200), location |-> Null],
               [ans |-> Answer(200), location |-> Some(Some("v"))],
               [ans |-> Answer(302), location |-> Null],
               [ans |-> Answer(302), location |-> Some(Null)] })

\* the answers of connect/finish: as above, with the request_token "t" as the
\* parameter
FinishOutcomes ==
  { [o EXCEPT !.location = IF @ = Some(Some("v")) THEN Some(Some("t")) ELSE @] :
      o \in RedirectOutcomes }

\* POST https://api.kite.trade/session/token: exception, non-200, or a JSON body
\* whose data is missing or is the API session {user_id, api_key, access_token};
\* the broker names the account in data.user_id
TokenOutcomes(form_user) ==
  IF lean
  THEN { [ans |-> Answer(200), has_data |-> TRUE, user_id |-> form_user] }
  ELSE { [ans |-> Threw, has_data |-> FALSE, user_id |-> ""],
         [ans |-> Answer(403), has_data |-> FALSE, user_id |-> ""],
         [ans |-> Answer(200), has_data |-> FALSE, user_id |-> ""] }
       \cup { [ans |-> Answer(200), has_data |-> TRUE, user_id |-> u] : u \in Users }

\* GET /oms/user/profile in getUserProfile: exception, non-2xx, or a body with or
\* without data
ProfileOutcomes ==
  { [ans |-> Answer(200), has_data |-> TRUE] }
  \cup (IF lean THEN {}
        ELSE { [ans |-> Threw, has_data |-> FALSE],
               [ans |-> Answer(403), has_data |-> FALSE],
               [ans |-> Answer(200), has_data |-> FALSE] })

\* DELETE https://api.kite.trade/session/token in handleLogout
InvalidateOutcomes == { Answer(200), Answer(403) } \cup (IF lean THEN {} ELSE { Threw })

(* ------------------------------ storage -------------------------------- *)
\* whether the SQLite statement about to run raises
DbRaises == IF dbFaults > 0 THEN {FALSE, TRUE} ELSE {FALSE}
AfterDb(raised) == IF raised THEN dbFaults - 1 ELSE dbFaults

\* SELECT ... FROM kite_users WHERE user_id = ?
SelectUser(u) == { r \in kite_users : r.user_id = u }

\* Bun.password.hash / Bun.password.verify: a hash verifies exactly its password
PasswordHash(password) == [bcrypt |-> password]
\* faulty variant of PasswordVerify: every password verifies
PasswordVerifyAny(password, hash) == hash = hash
PasswordVerify(password, hash) == hash = PasswordHash(password)

\* the rows of kite_sessions of one account
SessionsOf(u) ==
  { kite_sessions[i] : i \in { j \in 1..Len(kite_sessions) : kite_sessions[j].user_id = u } }

\* faulty variant of LatestSession: the statement without its ORDER BY
LatestSessionAnyRow(u) == SessionsOf(u)

\* SELECT ... WHERE user_id = ? ORDER BY created_at DESC LIMIT 1: the rows the
\* statement may return (SQL leaves the order of rows with equal keys open)
LatestSession(u) ==
  { r \in SessionsOf(u) : \A o \in SessionsOf(u) : o.created_at <= r.created_at }

\* the result of .get(): undefined or one row
GetLatest(u) ==
  IF SessionsOf(u) = {} THEN { Null } ELSE { Some(r) : r \in LatestSession(u) }

\* getISTTimestamp(): the wall clock, formatted to whole seconds (fixed width, so
\* that string order is time order)
getISTTimestamp == now

\* faulty variant of InsertSession: the new row replaces the rows of the account
InsertSessionReplacing(user_id, enctoken, api_key, access_token, kite_session, login_type) ==
  Append(SelectSeq(kite_sessions, LAMBDA r : r.user_id # user_id),
         [user_id |-> user_id, enctoken |-> enctoken,
          api_key |-> api_key, access_token |-> access_token,
          kite_session |-> kite_session, login_type |-> login_type,
          created_at |-> now])

\* INSERT INTO kite_sessions (...) VALUES (...)
InsertSession(user_id, enctoken, api_key, access_token, kite_session, login_type) ==
  Append(kite_sessions,
         [user_id |-> user_id, enctoken |-> enctoken,
          api_key |-> api_key, access_token |-> access_token,
          kite_session |-> kite_session, login_type |-> login_type,
          created_at |-> getISTTimestamp])

\* faulty variant of DeleteSessions: only the row inserted last is deleted
DeleteLatestOnly(u) ==
  LET mine == { i \in 1..Len(kite_sessions) : kite_sessions[i].user_id = u }
      last == CHOOSE i \in mine : \A j \in mine : j <= i
  IN  IF mine = {} THEN kite_sessions
      ELSE SubSeq(kite_sessions, 1, last - 1) \o SubSeq(kite_sessions, last + 1, Len(kite_sessions))

\* DELETE FROM kite_sessions WHERE user_id = ?
DeleteSessions(u) == SelectSeq(kite_sessions, LAMBDA r : r.user_id # u)

(* --------------------------- base32 alphabet --------------------------- *)
base32Chars ==
  { "A", "B", "C", "D", "E", "F", "G", "H", "I", "J", "K", "L", "M", "N", "O", "P",
    "Q", "R", "S", "T", "U", "V", "W", "X", "Y", "Z", "2", "3", "4", "5", "6", "7" }
LowerCase ==
  << "a", "b", "c", "d", "e", "f", "g", "h", "i", "j", "k", "l", "m", "n", "o", "p",
     "q", "r", "s", "t", "u", "v", "w", "x", "y", "z" >>
UpperCase ==
  << "A", "B", "C", "D", "E", "F", "G", "H", "I", "J", "K", "L", "M", "N", "O", "P",
     "Q", "R", "S", "T", "U", "V", "W", "X", "Y", "Z" >>
toUpperCase(c) ==
  IF \E i \in 1..Len(LowerCase) : LowerCase[i] = c
  THEN UpperCase[CHOOSE i \in 1..Len(LowerCase) : LowerCase[i] = c]
  ELSE c
\* secret.toUpperCase().replace(/=+$/, "")
RECURSIVE StripPadding(_)
StripPadding(s) ==
  IF s # << >> /\ s[Len(s)] = "=" THEN StripPadding(SubSeq(s, 1, Len(s) - 1)) ELSE s
cleanSecret(secret) == StripPadding([i \in 1..Len(secret) |-> toUpperCase(secret[i])])
\* base32Decode throws on a character outside the alphabet
base32DecodeThrows(secret) ==
  \E i \in 1..Len(cleanSecret(secret)) : cleanSecret(secret)[i] \notin base32Chars

(* ------------------------------- locals -------------------------------- *)
NoForm == [user_id |-> "", password |-> "", totp_secret |-> << >>,
           api_key |-> "", api_secret |-> ""]
NoOms == [success |-> FALSE, user_id |-> "", enctoken |-> Null, error |-> ""]
NoHs == [connect |-> Null, sess_id |-> Null, finish |-> Null, request_token |-> Null]
\* form: the parsed form; userRecord: the kite_users row handleLogin read;
\* existing: existingSession (login) / sessionRecord (logout); probe: the answer to
\* isEnctokenValid's fetch (login) / to the upstream DELETE (logout); oms: the
\* result of generateOMSSession; hs: the locals of generateAPISession
\* params: the query parameters of handleQuery
NoLoc == [form |-> NoForm, userRecord |-> Null, existing |-> Null, probe |-> Null,
          oms |-> NoOms, hs |-> NoHs, params |-> ""]

\* no function is applied on its own
NoFn == [name |-> "none", args |-> << >>, result |-> << >>]

\* a function is about to be applied to arguments args
Applying(name, args) == [name |-> name, args |-> args, result |-> Null]

\* the state after construction: the in-memory database holds the empty tables
Boot(reduced, faults) ==
  /\ kite_users = {}
  /\ kite_sessions = << >>
  /\ kite_instruments = << >>
  /\ now = 0
  /\ dbFaults = faults
  /\ started = 0
  /\ lean = reduced
  /\ rid = [p \in Procs |-> 0]
  /\ account = [p \in Procs |-> ""]
  /\ windowLogins = [u \in Users |-> 0]
  /\ pc = [p \in Procs |-> "idle"]
  /\ op = [p \in Procs |-> "none"]
  /\ loc = [p \in Procs |-> NoLoc]
  /\ calls = [p \in Procs |-> << >>]
  /\ requests = [p \in Procs |-> << >>]
  /\ writes = [p \in Procs |-> << >>]
  /\ began = [p \in Procs |-> 0]
  /\ obtained = [n \in 1..(MaxRequests + MaxLeanRequests) |-> Null]
  /\ resp = [p \in Procs |-> NoResp]

Init == Boot(TRUE, 0) /\ fn = NoFn
InitFull == Boot(FALSE, 0) /\ fn = NoFn
InitFaults == Boot(TRUE, MaxDbFaults) /\ fn = NoFn

\* a slot is free for the next request
Free(p) == pc[p] \in {"idle", "done"}

\* a handler invocation starts
StartRequest(p, handler, form) ==
  /\ Free(p)
  /\ started < (IF lean THEN MaxLeanRequests ELSE MaxRequests)
  /\ started' = started + 1
  /\ rid' = [rid EXCEPT ![p] = started + 1]
  /\ account' = [account EXCEPT ![p] = form.user_id]
  /\ op' = [op EXCEPT ![p] = handler]
  /\ calls' = [calls EXCEPT ![p] = << >>]
  /\ requests' = [requests EXCEPT ![p] = << >>]

\* the handler returns response r; its locals are gone
Return(p, r) ==
  /\ pc' = [pc EXCEPT ![p] = "done"]
  /\ resp' = [resp EXCEPT ![p] = r]
  /\ loc' = [loc EXCEPT ![p] = NoLoc]

\* the handler suspends at an await, with locals l
Await(p, at, l) ==
  /\ pc' = [pc EXCEPT ![p] = at]
  /\ resp' = [resp EXCEPT ![p] = NoResp]
  /\ loc' = [loc EXCEPT ![p] = l]

\* the characters of the texts that are concatenated
Chars(text) ==
  CASE text = "k1" -> << "k", "1" >>
    [] text = "s1" -> << "s", "1" >>
    [] text = "v" -> << "v" >>
    [] text = "t" -> << "t" >>
    [] OTHER -> << >>

\* faulty variant of generateChecksum: the secret comes first
generateChecksumSecretFirst(apiKey, requestToken, apiSecret) ==
  [hex |-> [sha256 |-> Chars(apiSecret) \o Chars(apiKey) \o Chars(requestToken)]]

\* generateChecksum: the SHA-256 digest of apiKey + requestToken + apiSecret, two
\* hexadecimal digits per byte; the digest stands for its input and for nothing
\* else
generateChecksum(apiKey, requestToken, apiSecret) ==
  [hex |-> [sha256 |-> Chars(apiKey) \o Chars(requestToken) \o Chars(apiSecret)]]

\* `${x}` of a value that is present ("" stands for the text of a missing one)
Text(x) == IF x = Null THEN "" ELSE x[1]

\* what the handler of slot p sends to an endpoint: the fields of the form body,
\* the parameters of the URL, the Authorization header
RequestOf(p, endpoint) ==
  LET l == loc[p]
  IN  CASE endpoint = "probe" -> [endpoint |-> endpoint, enctoken |-> l.existing[1].enctoken]
        [] endpoint = "login" ->
             [endpoint |-> endpoint, user_id |-> l.form.user_id, password |-> l.form.password]
        [] endpoint = "twofa" ->
             [endpoint |-> endpoint, user_id |-> l.oms.user_id,
              twofa_value |-> [totp |-> l.form.totp_secret]]
        [] endpoint = "connect" -> [endpoint |-> endpoint, api_key |-> l.form.api_key]
        [] endpoint = "finish" ->
             [endpoint |-> endpoint, api_key |-> l.form.api_key,
              sess_id |-> Text(l.hs.sess_id)]
        [] endpoint = "token" ->
             [endpoint |-> endpoint, api_key |-> l.form.api_key,
              request_token |-> Text(l.hs.request_token),
              checksum |-> generateChecksum(l.form.api_key, Text(l.hs.request_token),
                                            l.form.api_secret)]
        [] endpoint = "profile" -> [endpoint |-> endpoint, enctoken |-> l.oms.enctoken]
        [] endpoint = "invalidate" ->
             [endpoint |-> endpoint, api_key |-> Text(l.existing[1].api_key),
              access_token |-> l.existing[1].access_token]
        [] OTHER -> [endpoint |-> endpoint]

\* the handler has fetched an upstream endpoint and got answer ans
Called(p, endpoint, ans) ==
  /\ calls' = [calls EXCEPT ![p] = Append(@, [endpoint |-> endpoint, ans |-> ans])]
  /\ requests' = IF endpoint = "text" THEN requests
                 ELSE [requests EXCEPT ![p] = Append(@, RequestOf(p, endpoint))]

\* the latest session of the account, as read, carries no bearer token
NoLiveToken(row) == row = Null \/ row[1].enctoken = Null

\* the cache-valid window of account u goes on while its latest session carries a
\* bearer token that the probe answers with 200; otherwise a new window starts
WindowAfter(u, live) == IF live THEN windowLogins ELSE [windowLogins EXCEPT ![u] = 0]

(* ------------------------------- requests ------------------------------ *)
\* a request: method, whether the content type is form-urlencoded, and the form.
\* The requests a handler gets: the method it serves with each form, and, in the
\* full environment, one request with another method and one with another content
\* type
RequestsOf(method, forms, form) ==
  { [method |-> method, formOk |-> TRUE, form |-> f] : f \in forms }
  \cup (IF lean THEN {}
        ELSE { [method |-> IF method = "POST" THEN "DELETE" ELSE "POST",
                formOk |-> TRUE, form |-> form],
               [method |-> method, formOk |-> FALSE, form |-> form] })

\* a form with every field of a login
FullForm == [user_id |-> "u1", password |-> "pw1", totp_secret |-> << "J", "B" >>,
             api_key |-> "k1", api_secret |-> "s1"]

\* login forms: every account and secret, without and with API credentials; one
\* form with another password, one with an api_key only, one per missing field
MissingField ==
  { [NoForm EXCEPT !.password = "pw1", !.totp_secret = << "J", "B" >>],
    [NoForm EXCEPT !.user_id = "u1", !.totp_secret = << "J", "B" >>],
    [NoForm EXCEPT !.user_id = "u1", !.password = "pw1"] }

LoginForms ==
  IF lean
  THEN { [user_id |-> u, password |-> "pw1", totp_secret |-> << "J", "B" >>,
          api_key |-> c[1], api_secret |-> c[2]] :
           u \in Users, c \in ApiCreds }
  ELSE { [user_id |-> u, password |-> "pw1", totp_secret |-> t,
          api_key |-> c[1], api_secret |-> c[2]] :
           u \in Users, t \in TotpSecrets, c \in ApiCreds }
       \cup { [FullForm EXCEPT !.password = "pw2"],
              [FullForm EXCEPT !.api_secret = ""] }
       \cup MissingField

RegisterForms ==
  IF lean
  THEN { [NoForm EXCEPT !.user_id = u, !.password = "pw1", !.totp_secret = << "J", "B" >>] :
           u \in Users }
  ELSE { [NoForm EXCEPT !.user_id = u, !.password = w, !.totp_secret = t] :
           u \in Users, w \in Passwords, t \in TotpSecrets }
       \cup MissingField

LogoutForms ==
  { [NoForm EXCEPT !.user_id = u] : u \in Users \cup (IF lean THEN {} ELSE {""}) }

LoginRequests == RequestsOf("POST", LoginForms, FullForm)
RegisterRequests == RequestsOf("POST", RegisterForms, FullForm)
LogoutRequests == RequestsOf("DELETE", LogoutForms, FullForm)

(* ----------------------------- handleLogin ----------------------------- *)
\* the early returns of handleLogin before it reads the account: method, content
\* type, required fields
LoginInputError(method, formOk, form) ==
  IF method # "POST" THEN inputError("Method not allowed")
  ELSE IF ~formOk THEN inputError("Content-Type must be application/x-www-form-urlencoded")
  ELSE IF form.user_id = "" THEN inputError("user_id is required")
  ELSE IF form.password = "" THEN inputError("password is required")
  ELSE IF form.totp_secret = << >> THEN inputError("totp_secret is required")
  ELSE NoResp

\* faulty variants of isEnctokenValid: the comparison inverted; the answer ignored
isEnctokenValidInverted(out) == ~out.threw /\ out.status # 200
isEnctokenValidNever(out) == FALSE

\* isEnctokenValid: the probe answered 200
isEnctokenValid(out) == ~out.threw /\ out.status = 200

\* generateSession: the API driver runs when both api_key and api_secret are given
UsesApiDriver(form) == form.api_key # "" /\ form.api_secret # ""

\* the request up to `await Bun.password.verify`
Login_Begin(p) ==
  \E r \in LoginRequests, raised \in DbRaises :
    LET form == r.form
        bad == LoginInputError(r.method, r.formOk, form)
        rows == SelectUser(form.user_id)
    IN  /\ StartRequest(p, "login", form)
        /\ writes' = [writes EXCEPT ![p] = << >>]
        /\ IF bad # NoResp
           THEN /\ ~raised
                /\ Return(p, bad)
                /\ UNCHANGED dbFaults
           ELSE /\ dbFaults' = AfterDb(raised)
                /\ IF raised THEN Return(p, dbError("Database query failed"))
                   ELSE IF rows = {} THEN Return(p, authError("Invalid credentials"))
                   ELSE Await(p, "verify",
                              [NoLoc EXCEPT !.form = form,
                                            !.userRecord = Some(CHOOSE row \in rows : TRUE)])
        /\ UNCHANGED << kite_users, kite_sessions, now, lean, fn, kite_instruments, windowLogins, began, obtained >>

\* faulty variant of Probeable: the enctoken of the row is not looked at
ProbeableAnyRow(row) == row # Null

\* the session handleLogin finds worth probing: it has a payload and an enctoken
Probeable(row) == row # Null /\ Truthy(row[1].enctoken)

\* faulty variant of Login_Verified: a raise of the session lookup fails the request
Login_VerifiedFailsOnRead(p) ==
  /\ pc[p] = "verify"
  /\ op[p] = "login"
  /\ LET form == loc[p].form
         ur == loc[p].userRecord[1]
     IN IF ~PasswordVerify(form.password, ur.password_hash) \/ ur.totp_secret # form.totp_secret
        THEN /\ Return(p, authError("Invalid credentials"))
             /\ UNCHANGED << dbFaults, windowLogins >>
        ELSE \E raised \in DbRaises :
               \E row \in (IF raised THEN { Null } ELSE GetLatest(form.user_id)) :
                 /\ dbFaults' = AfterDb(raised)
                 /\ IF raised THEN Return(p, dbError("Database query failed"))
                    ELSE Await(p, IF Probeable(row) THEN "probe" ELSE "login",
                               [loc[p] EXCEPT !.existing = row])
                 /\ windowLogins' = WindowAfter(form.user_id, ~NoLiveToken(row))
  /\ UNCHANGED << kite_users, kite_sessions, now, lean, fn, kite_instruments, started, rid, account, op, calls, requests, writes, began, obtained >>

\* faulty variant of Login_Verified: the totp_secret of the form is not compared
\* with the account's
Login_VerifiedPasswordOnly(p) ==
  /\ pc[p] = "verify"
  /\ op[p] = "login"
  /\ LET form == loc[p].form
         ur == loc[p].userRecord[1]
     IN IF ~PasswordVerify(form.password, ur.password_hash)
        THEN /\ Return(p, authError("Invalid credentials"))
             /\ UNCHANGED << dbFaults, windowLogins >>
        ELSE \E raised \in DbRaises :
               \E row \in (IF raised THEN { Null } ELSE GetLatest(form.user_id)) :
                 /\ dbFaults' = AfterDb(raised)
                 /\ Await(p, IF Probeable(row) THEN "probe" ELSE "login",
                          [loc[p] EXCEPT !.existing = row])
                 /\ windowLogins' = WindowAfter(form.user_id, ~NoLiveToken(row))
  /\ UNCHANGED << kite_users, kite_sessions, now, lean, fn, kite_instruments, started, rid, account, op,
                  calls, requests, writes, began, obtained >>

\* faulty variant of Login_Verified: a session is probed only when it is of the
\* type the request asks for
Login_VerifiedPerVariant(p) ==
  /\ pc[p] = "verify"
  /\ op[p] = "login"
  /\ LET form == loc[p].form
         ur == loc[p].userRecord[1]
     IN IF ~PasswordVerify(form.password, ur.password_hash) \/ ur.totp_secret # form.totp_secret
        THEN /\ Return(p, authError("Invalid credentials"))
             /\ UNCHANGED << dbFaults, windowLogins >>
        ELSE \E raised \in DbRaises :
               \E row \in (IF raised THEN { Null } ELSE GetLatest(form.user_id)) :
                 /\ dbFaults' = AfterDb(raised)
                 /\ Await(p, IF Probeable(row)
                                 /\ (row[1].login_type = "API" <=> UsesApiDriver(form))
                              THEN "probe" ELSE "login",
                          [loc[p] EXCEPT !.existing = row])
                 /\ windowLogins' = WindowAfter(form.user_id, ~NoLiveToken(row))
  /\ UNCHANGED << kite_users, kite_sessions, now, lean, fn, kite_instruments, started, rid, account, op,
                  calls, requests, writes, began, obtained >>

\* password and totp_secret checks, the read of the latest session, and the
\* decision to probe it or to generate a new session
Login_Verified(p) ==
  /\ pc[p] = "verify"
  /\ op[p] = "login"
  /\ LET form == loc[p].form
         ur == loc[p].userRecord[1]
     IN IF ~PasswordVerify(form.password, ur.password_hash) \/ ur.totp_secret # form.totp_secret
        THEN /\ Return(p, authError("Invalid credentials"))
             /\ UNCHANGED << dbFaults, windowLogins >>
        ELSE \E raised \in DbRaises :
               \E row \in (IF raised THEN { Null } ELSE GetLatest(form.user_id)) :
                 /\ dbFaults' = AfterDb(raised)
                 /\ Await(p, IF Probeable(row) THEN "probe" ELSE "login",
                          [loc[p] EXCEPT !.existing = row])
                 /\ windowLogins' = WindowAfter(form.user_id, ~NoLiveToken(row))
  /\ UNCHANGED << kite_users, kite_sessions, now, lean, fn, kite_instruments, started, rid, account, op, calls, requests, writes, began, obtained >>

\* the answer of the validity probe: return the cached payload, or go on
Login_Probe(p) ==
  /\ pc[p] = "probe"
  /\ \E out \in ProbeOutcomes :
       /\ Called(p, "probe", out)
       /\ IF isEnctokenValid(out)
          THEN Return(p, successResponse(JSONParse(loc[p].existing[1].kite_session)))
          ELSE Await(p, "login", [loc[p] EXCEPT !.probe = Some(out)])
       /\ windowLogins' = WindowAfter(loc[p].form.user_id, out = Answer(200))
  /\ UNCHANGED << kite_users, kite_sessions, now, lean, fn, kite_instruments, dbFaults, started, rid, account, op,
                  writes, began, obtained >>

(* -------------------- generateOMSSession (sessionOMS.ts) ---------------- *)
\* the answer of the login or the 2FA POST with the status its JSON body reports
\* ("error" stands for every body that is not read or does not say "success")
WithBody(out) == [threw |-> out.ans.threw, status |-> out.ans.status, body |-> out.status]

\* the error generateOMSSession returns after the login POST, "" when it goes on
\* to the 2FA request (generateTotpValue's exception is caught by the driver)
LoginStepError(out, totp_secret) ==
  IF out.ans.threw THEN "fetch failed"
  ELSE IF ~ResponseOk(out.ans) THEN "Login failed [status]: body"
  ELSE IF out.status # "success" THEN "login body"
  ELSE IF base32DecodeThrows(totp_secret) THEN "Invalid base32 character"
  ELSE ""

\* faulty variant of TwofaStepError: twofaData.status is not looked at
TwofaStepErrorIgnoresBody(out) ==
  IF out.ans.threw THEN "fetch failed"
  ELSE IF ~ResponseOk(out.ans) THEN "2FA failed [status]: body"
  ELSE ""

\* the error generateOMSSession returns after the 2FA POST, "" on success
TwofaStepError(out) ==
  IF out.ans.threw THEN "fetch failed"
  ELSE IF ~ResponseOk(out.ans) THEN "2FA failed [status]: body"
  ELSE IF out.status # "success" THEN "twofa body"
  ELSE ""

\* faulty variant of DriverFailed: the error of the driver is replaced by the
\* message of the local credential check
DriverFailedGeneric(p, error) == Return(p, authError("Invalid credentials"))

\* handleLogin's answer to a failed driver: authError(sessionResult.error || ...)
DriverFailed(p, error) ==
  Return(p, authError(IF error # "" THEN error ELSE "Failed to generate session"))

\* faulty variant of OMS_Login: a failed login POST is sent again
OMS_LoginRetries(p) ==
  /\ pc[p] = "login"
  /\ \E out \in LoginOutcomes(loc[p].form.user_id) :
       LET error == LoginStepError(out, loc[p].form.totp_secret)
       IN  /\ Called(p, "login", WithBody(out))
           /\ windowLogins' = [windowLogins EXCEPT ![loc[p].form.user_id] = @ + 1]
           /\ IF error # ""
              THEN Await(p, "login", loc[p])
              ELSE Await(p, "twofa", [loc[p] EXCEPT !.oms.user_id = out.user_id])
  /\ UNCHANGED << kite_users, kite_sessions, now, lean, fn, kite_instruments, dbFaults, started, rid, account, op,
                  writes, began, obtained >>

\* the login POST and its answer; on success the TOTP code is computed and the
\* 2FA POST is sent
OMS_Login(p) ==
  /\ pc[p] = "login"
  /\ \E out \in LoginOutcomes(loc[p].form.user_id) :
       LET error == LoginStepError(out, loc[p].form.totp_secret)
       IN  /\ Called(p, "login", WithBody(out))
           /\ windowLogins' = [windowLogins EXCEPT ![loc[p].form.user_id] = @ + 1]
           /\ IF error # ""
              THEN DriverFailed(p, error)
              ELSE Await(p, "twofa", [loc[p] EXCEPT !.oms.user_id = out.user_id])
  /\ UNCHANGED << kite_users, kite_sessions, now, lean, fn, kite_instruments, dbFaults, started, rid, account, op,
                  writes, began, obtained >>

\* the session generateOMSSession returns on success
OmsResult(user_id, enctoken) ==
  [success |-> TRUE, user_id |-> user_id, enctoken |-> enctoken, error |-> ""]

\* faulty variant of OMS_Twofa: generateAPISession goes on to connect without
\* looking at omsResult.success
OMS_TwofaIgnoresFailure(p) ==
  /\ pc[p] = "twofa"
  /\ \E out \in TwofaOutcomes :
       LET error == TwofaStepError(out)
           enctoken == IF out.enctoken_cookie THEN Some(rid[p]) ELSE Null
       IN  /\ Called(p, "twofa", WithBody(out))
           /\ IF UsesApiDriver(loc[p].form)
              THEN Await(p, "connect",
                         [loc[p] EXCEPT !.oms = IF error # "" THEN NoOms
                                                ELSE OmsResult(loc[p].oms.user_id, enctoken)])
              ELSE IF error # "" THEN DriverFailed(p, error)
              ELSE Await(p, "profile",
                         [loc[p] EXCEPT !.oms = OmsResult(loc[p].oms.user_id, enctoken)])
  /\ UNCHANGED << kite_users, kite_sessions, now, lean, fn, kite_instruments, dbFaults, started, rid, account, op, writes,
                  windowLogins, began, obtained >>

\* faulty variant of OMS_Twofa: a 2FA answer without the enctoken cookie fails the
\* driver
OMS_TwofaRequiresCookie(p) ==
  /\ pc[p] = "twofa"
  /\ \E out \in TwofaOutcomes :
       LET error == IF TwofaStepError(out) = "" /\ ~out.enctoken_cookie THEN "no enctoken"
                    ELSE TwofaStepError(out)
           enctoken == IF out.enctoken_cookie THEN Some(rid[p]) ELSE Null
       IN  /\ Called(p, "twofa", WithBody(out))
           /\ IF error # ""
              THEN DriverFailed(p, error)
              ELSE Await(p, IF UsesApiDriver(loc[p].form) THEN "connect" ELSE "profile",
                       [loc[p] EXCEPT !.oms = OmsResult(loc[p].oms.user_id, enctoken)])
  /\ UNCHANGED << kite_users, kite_sessions, now, lean, fn, kite_instruments, dbFaults, started, rid, account, op, writes,
                  windowLogins, began, obtained >>

\* the answer of the 2FA POST; on success the driver returns its result and the
\* caller sends its next request: connect (API driver) or the profile fetch
OMS_Twofa(p) ==
  /\ pc[p] = "twofa"
  /\ \E out \in TwofaOutcomes :
       LET error == TwofaStepError(out)
           enctoken == IF out.enctoken_cookie THEN Some(rid[p]) ELSE Null
       IN  /\ Called(p, "twofa", WithBody(out))
           /\ IF error # ""
              THEN DriverFailed(p, error)
              ELSE Await(p, IF UsesApiDriver(loc[p].form) THEN "connect" ELSE "profile",
                       [loc[p] EXCEPT !.oms = OmsResult(loc[p].oms.user_id, enctoken)])
  /\ UNCHANGED << kite_users, kite_sessions, now, lean, fn, kite_instruments, dbFaults, started, rid, account, op, writes,
                  windowLogins, began, obtained >>

(* ---------------------- generateAPISession (sessionAPI) ----------------- *)
\* faulty variant of RedirectParam: the status of the answer is not looked at
RedirectParamAnyStatus(out) ==
  IF out.ans.threw THEN Null
  ELSE IF out.location = Null THEN Null
  ELSE out.location[1]

\* getSessionID / getRequestToken: the query parameter of the Location header of a
\* 302 answer, null otherwise
RedirectParam(out) ==
  IF out.ans.threw THEN Null
  ELSE IF out.ans.status # 302 THEN Null
  ELSE IF out.location = Null THEN Null
  ELSE out.location[1]

\* faulty variant of API_Connect: a connect request that yields no sess_id is sent
\* once more
API_ConnectRetries(p) ==
  /\ pc[p] = "connect"
  /\ \E out \in RedirectOutcomes :
       LET sessId == RedirectParam(out)
           tried == \E i \in 1..Len(calls[p]) : calls[p][i].endpoint = "connect"
       IN  /\ Called(p, "connect", out.ans)
           /\ IF ~Truthy(sessId)
              THEN IF tried THEN DriverFailed(p, "Failed to get session ID")
                   ELSE Await(p, "connect", loc[p])
              ELSE Await(p, "finish", [loc[p] EXCEPT !.hs.connect = Some(out.ans),
                                                      !.hs.sess_id = sessId])
  /\ UNCHANGED << kite_users, kite_sessions, now, lean, fn, kite_instruments, dbFaults, started, rid, account, op,
                  writes, windowLogins, began, obtained >>

\* the answer of the connect request
API_Connect(p) ==
  /\ pc[p] = "connect"
  /\ \E out \in RedirectOutcomes :
       LET sessId == RedirectParam(out)
       IN  /\ Called(p, "connect", out.ans)
           /\ IF ~Truthy(sessId)
              THEN DriverFailed(p, "Failed to get session ID")
              ELSE Await(p, "finish", [loc[p] EXCEPT !.hs.connect = Some(out.ans),
                                                      !.hs.sess_id = sessId])
  /\ UNCHANGED << kite_users, kite_sessions, now, lean, fn, kite_instruments, dbFaults, started, rid, account, op,
                  writes, windowLogins, began, obtained >>

\* the answer of the connect/finish request
API_Finish(p) ==
  /\ pc[p] = "finish"
  /\ \E out \in FinishOutcomes :
       LET requestToken == RedirectParam(out)
       IN  /\ Called(p, "finish", out.ans)
           /\ IF ~Truthy(requestToken)
              THEN DriverFailed(p, "Failed to get request token")
              ELSE Await(p, "token", [loc[p] EXCEPT !.hs.finish = Some(out.ans),
                                                     !.hs.request_token = requestToken])
  /\ UNCHANGED << kite_users, kite_sessions, now, lean, fn, kite_instruments, dbFaults, started, rid, account, op,
                  writes, windowLogins, began, obtained >>

\* generateSessionToken: the data of a 200 answer, null otherwise
SessionTokenData(out, api_key, access_token) ==
  IF out.ans.threw \/ out.ans.status # 200 \/ ~out.has_data THEN Null
  ELSE Some([user_id |-> Some(out.user_id), api_key |-> Some(api_key),
             access_token |-> Some(access_token)])

\* the INSERT of handleLogin, inside its try block: a raise is logged and dropped
SaveSession(p, raised, user_id, enctoken, api_key, access_token, payload, login_type) ==
  /\ dbFaults' = AfterDb(raised)
  /\ IF raised
     THEN /\ writes' = [writes EXCEPT ![p] = Append(@, [stmt |-> "insert", user_id |-> user_id, changes |-> 0])]
          /\ UNCHANGED << kite_sessions, obtained >>
     ELSE /\ kite_sessions' = InsertSession(user_id, enctoken, api_key, access_token,
                                            JSONStringify(payload), login_type)
          /\ writes' = [writes EXCEPT ![p] = Append(@, [stmt |-> "insert", user_id |-> user_id, changes |-> 1])]
          /\ obtained' = [obtained EXCEPT ![rid[p]] =
                            Some([password |-> loc[p].form.password,
                                  totp_secret |-> loc[p].form.totp_secret])]

\* faulty variant of API_Token: the session is saved before the answer is looked at
API_TokenSavesFirst(p) ==
  /\ pc[p] = "token"
  /\ \E out \in TokenOutcomes(loc[p].form.user_id) :
       LET data == SessionTokenData(out, loc[p].form.api_key, rid[p])
       IN  /\ Called(p, "token", out.ans)
           /\ SaveSession(p, FALSE, loc[p].form.user_id, loc[p].oms.enctoken,
                          Some(loc[p].form.api_key), Null,
                          [user_id |-> Some(loc[p].form.user_id)], "API")
           /\ IF data = Null
              THEN DriverFailed(p, "Failed to generate session token")
              ELSE Return(p, successResponse(data[1]))
  /\ UNCHANGED << kite_users, now, lean, fn, kite_instruments, started, rid, account, op, windowLogins, began >>

\* faulty variant of API_Token: the API session is saved without the enctoken of
\* the OMS session
API_TokenDropsEnctoken(p) ==
  /\ pc[p] = "token"
  /\ \E out \in TokenOutcomes(loc[p].form.user_id), raised \in DbRaises :
       LET data == SessionTokenData(out, loc[p].form.api_key, rid[p])
       IN  /\ Called(p, "token", out.ans)
           /\ IF data = Null
              THEN /\ ~raised
                   /\ DriverFailed(p, "Failed to generate session token")
                   /\ UNCHANGED << kite_sessions, dbFaults, writes, obtained >>
              ELSE /\ SaveSession(p, raised, data[1].user_id[1], Null,
                                  data[1].api_key, data[1].access_token, data[1], "API")
                   /\ Return(p, successResponse(data[1]))
  /\ UNCHANGED << kite_users, now, lean, fn, kite_instruments, started, rid, account, op, windowLogins, began >>

\* the answer of the token exchange; on success handleLogin saves the API
\* session and returns it
API_Token(p) ==
  /\ pc[p] = "token"
  /\ \E out \in TokenOutcomes(loc[p].form.user_id), raised \in DbRaises :
       LET data == SessionTokenData(out, loc[p].form.api_key, rid[p])
       IN  /\ Called(p, "token", out.ans)
           /\ IF data = Null
              THEN /\ ~raised
                   /\ DriverFailed(p, "Failed to generate session token")
                   /\ UNCHANGED << kite_sessions, dbFaults, writes, obtained >>
              ELSE /\ SaveSession(p, raised, data[1].user_id[1], loc[p].oms.enctoken,
                                  data[1].api_key, data[1].access_token, data[1], "API")
                   /\ Return(p, successResponse(data[1]))
  /\ UNCHANGED << kite_users, now, lean, fn, kite_instruments, started, rid, account, op, windowLogins, began >>

(* ------------------------- handleLogin, OMS only ------------------------ *)
\* getUserProfile: the data of a 2xx answer, null otherwise
UserProfile(out) ==
  IF out.ans.threw \/ ~ResponseOk(out.ans) \/ ~out.has_data THEN Null ELSE Some("profile")

\* the merged profile and OMS session data handleLogin returns
omsResponse(o, profile) ==
  [user_id |-> Some(o.user_id), user_name |-> profile, enctoken |-> o.enctoken]

\* faulty variant of OMS_Profile: a raise of the INSERT fails the request
OMS_ProfileFailsOnSave(p) ==
  /\ pc[p] = "profile"
  /\ \E out \in ProfileOutcomes, raised \in DbRaises :
       LET profile == UserProfile(out)
           o == loc[p].oms
       IN  /\ Called(p, "profile", out.ans)
           /\ IF ~Truthy(profile)
              THEN /\ ~raised
                   /\ Return(p, authError("Failed to get user profile"))
                   /\ UNCHANGED << kite_sessions, dbFaults, writes, obtained >>
              ELSE /\ SaveSession(p, raised,
                                  IF o.user_id # "" THEN o.user_id ELSE loc[p].form.user_id,
                                  o.enctoken, Null, Null, omsResponse(o, profile), "OMS")
                   /\ IF raised THEN Return(p, dbError("Failed to save session"))
                      ELSE Return(p, successResponse(omsResponse(o, profile)))
  /\ UNCHANGED << kite_users, now, lean, fn, kite_instruments, started, rid, account, op, windowLogins, began >>

\* the answer of the profile fetch; on success handleLogin saves the OMS session
\* and returns it
OMS_Profile(p) ==
  /\ pc[p] = "profile"
  /\ \E out \in ProfileOutcomes, raised \in DbRaises :
       LET profile == UserProfile(out)
           o == loc[p].oms
       IN  /\ Called(p, "profile", out.ans)
           /\ IF ~Truthy(profile)
              THEN /\ ~raised
                   /\ Return(p, authError("Failed to get user profile"))
                   /\ UNCHANGED << kite_sessions, dbFaults, writes, obtained >>
              ELSE /\ SaveSession(p, raised,
                                  IF o.user_id # "" THEN o.user_id ELSE loc[p].form.user_id,
                                  o.enctoken, Null, Null, omsResponse(o, profile), "OMS")
                   /\ Return(p, successResponse(omsResponse(o, profile)))
  /\ UNCHANGED << kite_users, now, lean, fn, kite_instruments, started, rid, account, op, windowLogins, began >>

(* ----------------------------- handleLogout ----------------------------- *)
LogoutInputError(method, formOk, form) ==
  IF method # "DELETE" THEN inputError("Method not allowed")
  ELSE IF ~formOk THEN inputError("Content-Type must be application/x-www-form-urlencoded")
  ELSE IF form.user_id = "" THEN inputError("user_id is required")
  ELSE NoResp

\* faulty variant: the DELETE answers success whatever `changes` is
DeleteAndRespondUnchecked(p, raised, user_id, prior) ==
  LET changes == Cardinality({ i \in 1..Len(kite_sessions) : kite_sessions[i].user_id = user_id })
  IN  /\ dbFaults' = AfterDb(raised)
      /\ IF raised
         THEN /\ Return(p, dbError("Failed to delete session"))
              /\ writes' = [writes EXCEPT ![p] = prior]
              /\ UNCHANGED kite_sessions
         ELSE /\ kite_sessions' = DeleteSessions(user_id)
              /\ writes' = [writes EXCEPT ![p] = Append(prior, [stmt |-> "delete", user_id |-> user_id, changes |-> changes])]
              /\ Return(p, successResponse([message |-> Some("Logout successful"),
                                            user_id |-> Some(user_id)]))

\* the DELETE of handleLogout and the response that follows it; prior: the
\* statements the invocation has run so far
DeleteAndRespond(p, raised, user_id, prior) ==
  LET changes == Cardinality({ i \in 1..Len(kite_sessions) : kite_sessions[i].user_id = user_id })
  IN  /\ dbFaults' = AfterDb(raised)
      /\ IF raised
         THEN /\ Return(p, dbError("Failed to delete session"))
              /\ writes' = [writes EXCEPT ![p] = prior]
              /\ UNCHANGED kite_sessions
         ELSE /\ kite_sessions' = DeleteSessions(user_id)
              /\ writes' = [writes EXCEPT ![p] = Append(prior, [stmt |-> "delete", user_id |-> user_id, changes |-> changes])]
              /\ IF changes = 0
                 THEN Return(p, authError("No session found to delete"))
                 ELSE Return(p, successResponse([message |-> Some("Logout successful"),
                                                 user_id |-> Some(user_id)]))

\* the session has an API token to invalidate upstream
HasApiToken(row) == Truthy(row.api_key) /\ Truthy(row.access_token)

\* the request up to the upstream DELETE, or to its end when there is none
Logout_Begin(p) ==
  \E r \in LogoutRequests, raised \in DbRaises, raisedDelete \in DbRaises :
    LET form == r.form
        bad == LogoutInputError(r.method, r.formOk, form)
    IN  /\ StartRequest(p, "logout", form)
        /\ IF bad # NoResp
           THEN /\ ~raised /\ ~raisedDelete
                /\ Return(p, bad)
                /\ writes' = [writes EXCEPT ![p] = << >>]
                /\ UNCHANGED << dbFaults, kite_sessions >>
           ELSE IF raised
           THEN /\ ~raisedDelete
                /\ Return(p, dbError("Database query failed"))
                /\ writes' = [writes EXCEPT ![p] = << >>]
                /\ dbFaults' = AfterDb(raised)
                /\ UNCHANGED kite_sessions
           ELSE \E row \in GetLatest(form.user_id) :
                  IF row = Null
                  THEN /\ ~raisedDelete
                       /\ Return(p, authError("No active session found for this user"))
                       /\ writes' = [writes EXCEPT ![p] = << >>]
                       /\ UNCHANGED << dbFaults, kite_sessions >>
                  ELSE IF HasApiToken(row[1])
                  THEN /\ ~raisedDelete
                       /\ Await(p, "invalidate", [NoLoc EXCEPT !.form = form, !.existing = row])
                       /\ writes' = [writes EXCEPT ![p] = << >>]
                       /\ UNCHANGED << dbFaults, kite_sessions >>
                  ELSE DeleteAndRespond(p, raisedDelete, form.user_id, << >>)
        /\ UNCHANGED << kite_users, now, lean, fn, kite_instruments, windowLogins, began, obtained >>

\* the answer of the upstream invalidation (any answer, or none, goes on to the
\* DELETE)
Logout_Invalidate(p) ==
  /\ pc[p] = "invalidate"
  /\ \E out \in InvalidateOutcomes, raised \in DbRaises :
       /\ Called(p, "invalidate", out)
       /\ DeleteAndRespond(p, raised, loc[p].form.user_id, writes[p])
  /\ UNCHANGED << kite_users, now, lean, fn, kite_instruments, started, rid, account, op, windowLogins, began, obtained >>

(* ---------------------------- handleRegister ---------------------------- *)
RegisterInputError(method, formOk, form) ==
  IF method # "POST" THEN inputError("Method not allowed")
  ELSE IF ~formOk THEN inputError("Content-Type must be application/x-www-form-urlencoded")
  ELSE IF form.user_id = "" THEN inputError("user_id is required")
  ELSE IF form.password = "" THEN inputError("password is required")
  ELSE IF form.totp_secret = << >> THEN inputError("totp_secret is required")
  ELSE NoResp

\* the request up to `await Bun.password.hash`
Register_Begin(p) ==
  \E r \in RegisterRequests :
    LET form == r.form
        bad == RegisterInputError(r.method, r.formOk, form)
    IN  /\ StartRequest(p, "register", form)
        /\ IF bad # NoResp
           THEN Return(p, bad)
           ELSE Await(p, "reg_hash", [NoLoc EXCEPT !.form = form])
        /\ writes' = [writes EXCEPT ![p] = << >>]
        /\ UNCHANGED << kite_users, kite_sessions, now, lean, fn, kite_instruments, dbFaults,
                        windowLogins, began, obtained >>

\* faulty variant of UpsertUser: the row is inserted whether or not the account exists
UpsertUserInserts(form) ==
  kite_users \cup { [user_id |-> form.user_id, password_hash |-> PasswordHash(form.password),
                     totp_secret |-> form.totp_secret] }

\* UPDATE kite_users SET ... WHERE user_id = ? / INSERT INTO kite_users
UpsertUser(form) ==
  LET row == [user_id |-> form.user_id, password_hash |-> PasswordHash(form.password),
              totp_secret |-> form.totp_secret]
  IN  IF SelectUser(form.user_id) # {}
      THEN { IF r.user_id = form.user_id THEN row ELSE r : r \in kite_users }
      ELSE kite_users \cup { row }

\* the existence check and the UPDATE or INSERT that follows it
Register_Write(p) ==
  /\ pc[p] = "reg_hash"
  /\ \E raised \in DbRaises :
       /\ dbFaults' = AfterDb(raised)
       /\ IF raised
          THEN /\ Return(p, dbError("Database operation failed"))
               /\ UNCHANGED kite_users
          ELSE /\ kite_users' = UpsertUser(loc[p].form)
               /\ Return(p, successResponse(
                     [message |-> Some(IF SelectUser(loc[p].form.user_id) # {}
                                       THEN "User updated successfully"
                                       ELSE "User registered successfully"),
                      user_id |-> Some(loc[p].form.user_id),
                      operation |-> Some(IF SelectUser(loc[p].form.user_id) # {}
                                         THEN "updated" ELSE "created")]))
  /\ UNCHANGED << kite_sessions, now, lean, fn, kite_instruments, started, rid, account, windowLogins, op, calls, requests,
                  writes, began, obtained >>

(* ------------------- kite_instruments (refresh.ts, query.ts) ------------- *)
\* the payloads the upstream feed serves: payload k is a CSV text of a header line
\* and k data rows
Feeds == 0..MaxFeedRows

\* fetch("https://api.kite.trade/instruments"): exception, non-2xx, or 2xx
InstrumentsOutcomes == { Threw, Answer(500), Answer(200) }

\* response.text(): exception, or the payload
TextOutcomes ==
  { [threw |-> TRUE, status |-> 0, feed |-> 0] }
  \cup { [threw |-> FALSE, status |-> 200, feed |-> k] : k \in Feeds }

\* parseCSV throws when the text has fewer than two lines
parseCSVThrows(feed) == feed + 1 < 2

\* faulty variant of dbRecords: the timestamp is taken anew for every row, and the
\* clock of the first row is not that of the rows after it
dbRecordsStampedPerRow(feed, updatedAt) ==
  [n \in 1..feed |-> [feed |-> feed, n |-> n,
                      updated_at |-> IF n = 1 /\ updatedAt > 0 THEN updatedAt - 1 ELSE updatedAt]]

\* csvData.map(row => transformToDBRecord(row, istTimestamp)): row n of payload
\* feed, stamped updatedAt
dbRecords(feed, updatedAt) ==
  [n \in 1..feed |-> [feed |-> feed, n |-> n, updated_at |-> updatedAt]]

\* the statement of the write phase that raises ("none": no statement raises);
\* n: the row whose INSERT raises
WriteFaults(feed) ==
  { [stmt |-> "none", n |-> 0] }
  \cup (IF dbFaults > 0
        THEN { [stmt |-> "delete", n |-> 0], [stmt |-> "commit", n |-> 0] }
             \cup { [stmt |-> "insert", n |-> k] : k \in 1..feed }
        ELSE {})

\* faulty variant of TableAfterWrite: the rows inserted before the raise stay
TableAfterWriteNoRollback(feed, fault) ==
  CASE fault.stmt = "none" -> dbRecords(feed, getISTTimestamp)
    [] fault.stmt = "delete" -> kite_instruments
    [] fault.stmt = "insert" -> SubSeq(dbRecords(feed, getISTTimestamp), 1, fault.n - 1)
    [] OTHER -> dbRecords(feed, getISTTimestamp)

\* faulty variant of TableAfterWrite: the rows are inserted without the DELETE
TableAfterWriteAppending(feed, fault) ==
  CASE fault.stmt = "none" -> kite_instruments \o dbRecords(feed, getISTTimestamp)
    [] OTHER -> kite_instruments

\* the table after the write phase of performInstrumentsRefresh: DELETE FROM
\* kite_instruments (on its own, committed as it runs), then BEGIN TRANSACTION, one
\* INSERT per record, COMMIT; a raise inside the transaction is answered with
\* ROLLBACK, which undoes the INSERTs and not the DELETE
TableAfterWrite(feed, fault) ==
  CASE fault.stmt = "none" -> dbRecords(feed, getISTTimestamp)
    [] fault.stmt = "delete" -> kite_instruments
    [] OTHER -> << >>

\* the result of performInstrumentsRefresh, and insertedCount as the write phase
\* left it
RefreshResult(success, count, inserted) ==
  [stmt |-> "refresh", success |-> success, count |-> count, inserted |-> inserted]

\* insertedCount after the write phase
insertedCount(feed, fault) ==
  CASE fault.stmt = "delete" -> 0
    [] fault.stmt = "insert" -> fault.n - 1
    [] OTHER -> feed

\* getInstrumentsRefreshCutoff: the latest cutoff instant that is not after the
\* current time.  The clock counts half days; the cutoffs (08:30) are the odd
\* instants
getInstrumentsRefreshCutoff == IF now % 2 = 1 THEN now ELSE now - 1

\* getLatestUpdateTime: SELECT MAX(updated_at), null without rows or on a raise
getLatestUpdateTime(raised) ==
  IF raised \/ kite_instruments = << >> THEN Null
  ELSE Some(CHOOSE t \in { kite_instruments[i].updated_at : i \in 1..Len(kite_instruments) } :
              \A i \in 1..Len(kite_instruments) : kite_instruments[i].updated_at <= t)

\* faulty variant of isRefreshRequired: an update at the cutoff counts as stale
isRefreshRequiredAtCutoff(raised) ==
  LET latestUpdate == getLatestUpdateTime(raised)
  IN  latestUpdate = Null \/ latestUpdate[1] <= getInstrumentsRefreshCutoff

\* isRefreshRequired
isRefreshRequired(raised) ==
  LET latestUpdate == getLatestUpdateTime(raised)
  IN  latestUpdate = Null \/ latestUpdate[1] < getInstrumentsRefreshCutoff

\* query parameters: none, and a filter that rows 1 and 2 of a payload match
QueryParams == { "", "exchange=NSE" }

\* SELECT ... FROM kite_instruments WHERE ...
SelectInstruments(table, params) ==
  IF params = "exchange=NSE" THEN SelectSeq(table, LAMBDA r : r.n <= 2) ELSE << >>

\* handleQuery from the parsing of the parameters on, over table `table`
QueryResponse(params, table, raised) ==
  IF params = "" THEN inputError("At least one query parameter is required")
  ELSE IF raised THEN dbError("Database query failed")
  ELSE successResponse([count |-> Some(Len(SelectInstruments(table, params))),
                        instruments |-> Some(SelectInstruments(table, params))])

\* faulty variant of AfterRefresh: handleQuery answers a failed refresh with its
\* error, as handleRefresh does
AfterRefreshAborts(p, result, error, table, raised) ==
  /\ writes' = [writes EXCEPT ![p] = Append(@, result)]
  /\ IF op[p] = "refresh" \/ ~result.success
     THEN /\ ~raised
          /\ Return(p, IF result.success
                       THEN successResponse([message |-> Some("Instruments refreshed successfully"),
                                             total_instruments |-> Some(result.count)])
                       ELSE dbError(error))
     ELSE /\ raised => loc[p].params # ""
          /\ Return(p, QueryResponse(loc[p].params, table, raised))

\* what follows performInstrumentsRefresh in its caller: handleRefresh answers with
\* the result, handleQuery logs it and runs the query
AfterRefresh(p, result, error, table, raised) ==
  /\ writes' = [writes EXCEPT ![p] = Append(@, result)]
  /\ IF op[p] = "refresh"
     THEN /\ ~raised
          /\ Return(p, IF result.success
                       THEN successResponse([message |-> Some("Instruments refreshed successfully"),
                                             total_instruments |-> Some(result.count)])
                       ELSE dbError(error))
     ELSE /\ raised => loc[p].params # ""
          /\ Return(p, QueryResponse(loc[p].params, table, raised))

\* GET /instruments/refresh up to `await fetch`
Refresh_Begin(p) ==
  /\ started < MaxInstrumentRequests
  /\ StartRequest(p, "refresh", NoForm)
  /\ writes' = [writes EXCEPT ![p] = << >>]
  /\ began' = [began EXCEPT ![p] = now]
  /\ Await(p, "fetch", NoLoc)
  /\ UNCHANGED << kite_users, kite_sessions, kite_instruments, now, lean, fn, dbFaults,
                  windowLogins, obtained >>

\* GET /instruments/query: the staleness check, then either `await fetch` of the
\* refresh it triggers, or the query
Query_Begin(p) ==
  \E params \in QueryParams, raisedCheck \in DbRaises, raised \in DbRaises :
    /\ started < MaxInstrumentRequests
    /\ StartRequest(p, "query", NoForm)
    /\ writes' = [writes EXCEPT ![p] = << >>]
    /\ began' = [began EXCEPT ![p] = now]
    /\ (IF raisedCheck THEN 1 ELSE 0) + (IF raised THEN 1 ELSE 0) <= dbFaults
    /\ dbFaults' = dbFaults - (IF raisedCheck THEN 1 ELSE 0) - (IF raised THEN 1 ELSE 0)
    /\ IF isRefreshRequired(raisedCheck)
       THEN /\ ~raised
            /\ Await(p, "fetch", [NoLoc EXCEPT !.params = params])
       ELSE /\ raised => params # ""
            /\ Return(p, QueryResponse(params, kite_instruments, raised))
    /\ UNCHANGED << kite_users, kite_sessions, kite_instruments, now, lean, fn, windowLogins, obtained >>

\* the answer of the fetch of the feed
Refresh_Fetch(p) ==
  /\ pc[p] = "fetch"
  /\ \E out \in InstrumentsOutcomes, raised \in DbRaises :
       /\ Called(p, "instruments", out)
       /\ IF ResponseOk(out)
          THEN /\ ~raised
               /\ Await(p, "text", loc[p])
               /\ UNCHANGED << writes, dbFaults >>
          ELSE /\ AfterRefresh(p, RefreshResult(FALSE, 0, 0),
                               IF out.threw THEN "fetch failed"
                               ELSE "Failed to fetch instruments: statusText",
                               kite_instruments, raised)
               /\ dbFaults' = AfterDb(raised)
  /\ UNCHANGED << kite_users, kite_sessions, kite_instruments, now, lean, fn, started, rid,
                  account, op, windowLogins, began, obtained >>

\* the text of the feed arrives: it is parsed, the records are stamped, the table
\* is emptied and filled, and the caller goes on
Refresh_Text(p) ==
  /\ pc[p] = "text"
  /\ \E out \in TextOutcomes, raised \in BOOLEAN :
       \E fault \in (IF out.threw \/ parseCSVThrows(out.feed)
                     THEN { [stmt |-> "none", n |-> 0] } ELSE WriteFaults(out.feed)) :
         LET failed == out.threw \/ parseCSVThrows(out.feed) \/ fault.stmt # "none"
             table == IF out.threw \/ parseCSVThrows(out.feed) THEN kite_instruments
                      ELSE TableAfterWrite(out.feed, fault)
             used == (IF fault.stmt # "none" THEN 1 ELSE 0) + (IF raised THEN 1 ELSE 0)
         IN  /\ used <= dbFaults
             /\ dbFaults' = dbFaults - used
             /\ Called(p, "text", out)
             /\ kite_instruments' = table
             /\ AfterRefresh(p, RefreshResult(~failed, IF failed THEN 0 ELSE out.feed,
                                              IF out.threw \/ parseCSVThrows(out.feed) THEN 0
                                              ELSE insertedCount(out.feed, fault)),
                             IF out.threw THEN "text failed"
                             ELSE IF parseCSVThrows(out.feed) THEN "Invalid CSV format: no data rows"
                             ELSE IF fault.stmt = "delete" THEN "Failed to truncate table: message"
                             ELSE "Failed to insert data: message",
                             table, raised)
  /\ UNCHANGED << kite_users, kite_sessions, now, lean, fn, started, rid, account, op,
                  windowLogins, began, obtained >>

(* ---------------- timestamps and the freshness check (part_004) ----------- *)
\* strings are sequences of character codes: "0".."9" are 48..57, " " is 32,
\* "-" is 45, ":" is 58
\* String(n) of a non-negative integer
RECURSIVE Decimal(_)
Decimal(n) == IF n < 10 THEN << 48 + n >> ELSE Decimal(n \div 10) \o << 48 + (n % 10) >>

\* String(n).padStart(2, "0")
padStart2(n) == IF Len(Decimal(n)) >= 2 THEN Decimal(n) ELSE << 48 >> \o Decimal(n)

\* the template of getISTTimestamp: `${year}-${month}-${day} ${hours}:${minutes}:${seconds}`
FormatTimestamp(t) ==
  Decimal(t.year) \o << 45 >> \o padStart2(t.month) \o << 45 >> \o padStart2(t.day)
  \o << 32 >> \o padStart2(t.hours) \o << 58 >> \o padStart2(t.minutes)
  \o << 58 >> \o padStart2(t.seconds)

\* str.split(sep), sep one character
RECURSIVE split(_, _)
split(str, sep) ==
  IF \A i \in 1..Len(str) : str[i] # sep THEN << str >>
  ELSE LET i == CHOOSE j \in 1..Len(str) :
                  str[j] = sep /\ \A k \in 1..(j - 1) : str[k] # sep
       IN  << SubSeq(str, 1, i - 1) >> \o split(SubSeq(str, i + 1, Len(str)), sep)

\* Number(str) of a string of decimal digits (the empty string is 0)
RECURSIVE Number(_)
Number(str) ==
  IF str = << >> THEN 0
  ELSE 10 * Number(SubSeq(str, 1, Len(str) - 1)) + (str[Len(str)] - 48)

\* a < b of two strings: code unit by code unit, a proper prefix is less
RECURSIVE StringLess(_, _)
StringLess(a, b) ==
  IF b = << >> THEN FALSE
  ELSE IF a = << >> THEN TRUE
  ELSE IF a[1] # b[1] THEN a[1] < b[1]
  ELSE StringLess(Tail(a), Tail(b))

\* the calendar of Date
IsLeapYear(y) == y % 4 = 0 /\ (y % 100 # 0 \/ y % 400 = 0)
DaysInMonth(y, m) ==
  IF m = 2 THEN (IF IsLeapYear(y) THEN 29 ELSE 28)
  ELSE IF m \in {4, 6, 9, 11} THEN 30 ELSE 31

\* faulty variant of setDatePrevious: the day number is decremented and the month
\* is left alone
setDatePreviousSameMonth(d) == [d EXCEPT !.day = d.day - 1]

\* cutoffDate.setDate(cutoffDate.getDate() - 1) on new Date(year, month - 1, day):
\* day 0 of a month is the last day of the month before
setDatePrevious(d) ==
  IF d.day > 1 THEN [d EXCEPT !.day = d.day - 1]
  ELSE IF d.month > 1
       THEN [d EXCEPT !.month = d.month - 1, !.day = DaysInMonth(d.year, d.month - 1)]
       ELSE [year |-> d.year - 1, month |-> 12, day |-> 31]

REFRESH_CUTOFF_HOUR == 8
REFRESH_CUTOFF_MINUTE == 30

\* getInstrumentsRefreshCutoff on the string getISTTimestamp returned
getInstrumentsRefreshCutoffAt(currentIST) ==
  LET parts == split(currentIST, 32)
      dateParts == split(parts[1], 45)
      timeParts == split(parts[2], 58)
      today == [year |-> Number(dateParts[1]), month |-> Number(dateParts[2]),
                day |-> Number(dateParts[3])]
      hours == Number(timeParts[1])
      minutes == Number(timeParts[2])
      cutoffDate ==
        IF hours < REFRESH_CUTOFF_HOUR
           \/ (hours = REFRESH_CUTOFF_HOUR /\ minutes < REFRESH_CUTOFF_MINUTE)
        THEN setDatePrevious(today) ELSE today
  IN  Decimal(cutoffDate.year) \o << 45 >> \o padStart2(cutoffDate.month) \o << 45 >>
      \o padStart2(cutoffDate.day) \o << 32, 48, 56, 58, 51, 48, 58, 48, 48 >>

\* getLatestUpdateTime over the updated_at column `column`: MAX(updated_at) (text
\* order), null without rows or when the statement raises
getLatestUpdateTimeOf(column, raised) ==
  IF raised \/ column = << >> THEN Null
  ELSE Some(CHOOSE u \in { column[i] : i \in 1..Len(column) } :
              \A i \in 1..Len(column) : ~StringLess(u, column[i]))

\* faulty variant of isRefreshRequiredAt: an update at the cutoff counts as stale
isRefreshRequiredAtOrBefore(column, raised, currentIST) ==
  LET cutoff == getInstrumentsRefreshCutoffAt(currentIST)
      latestUpdate == getLatestUpdateTimeOf(column, raised)
  IN  latestUpdate = Null \/ ~StringLess(cutoff, latestUpdate[1])

\* isRefreshRequired on the string getISTTimestamp returned
isRefreshRequiredAt(column, raised, currentIST) ==
  LET cutoff == getInstrumentsRefreshCutoffAt(currentIST)
      latestUpdate == getLatestUpdateTimeOf(column, raised)
  IN  latestUpdate = Null \/ StringLess(latestUpdate[1], cutoff)

\* the exchange-local times the functions are applied at: two years, one of them a
\* leap year, the days at the ends of the months, the hours and minutes around the
\* cutoff and around midnight
Times ==
  { [year |-> y, month |-> m, day |-> d, hours |-> h, minutes |-> mi, seconds |-> sec] :
      y \in {2023, 2024}, m \in 1..12, d \in {1, 10, 28, 29, 30, 31},
      h \in {0, 7, 8, 9, 23}, mi \in {0, 29, 30, 59}, sec \in {0, 1, 59} }
ClockTimes == { t \in Times : t.day <= DaysInMonth(t.year, t.month) }

\* the times the freshness check is applied at, and the updated_at values the
\* table may hold then: around the cutoff of that day and of the day before
CheckTimes == { t \in ClockTimes : t.year = 2024 /\ t.month \in {1, 3} /\ t.day \in {1, 10}
                                   /\ t.seconds = 0 }
UpdateTimes(t) ==
  { [d EXCEPT !.hours = 8, !.minutes = hm[1], !.seconds = hm[2]] :
      d \in { t, [t EXCEPT !.year = setDatePrevious(t).year,
                           !.month = setDatePrevious(t).month,
                           !.day = setDatePrevious(t).day] },
      hm \in { << 29, 59 >>, << 30, 0 >>, << 30, 1 >> } }
UpdateColumns(t) ==
  { << >> } \cup { << FormatTimestamp(u) >> : u \in UpdateTimes(t) }
  \cup { << FormatTimestamp(u), FormatTimestamp(v) >> : u, v \in UpdateTimes(t) }

\* getInstrumentsRefreshCutoff is applied
Cutoff_Apply ==
  /\ fn.name = "getInstrumentsRefreshCutoff" /\ fn.result = Null
  /\ fn' = [fn EXCEPT !.result = Some(getInstrumentsRefreshCutoffAt(FormatTimestamp(fn.args[1])))]
  /\ UNCHANGED << kite_users, kite_sessions, kite_instruments, now, dbFaults, started, lean,
                  rid, account, windowLogins, pc, op, loc, calls, requests, writes, resp, began, obtained >>

\* isRefreshRequired is applied
Oracle_Apply ==
  /\ fn.name = "isRefreshRequired" /\ fn.result = Null
  /\ fn' = [fn EXCEPT !.result = Some(isRefreshRequiredAt(fn.args[2], fn.args[3],
                                                          FormatTimestamp(fn.args[1])))]
  /\ UNCHANGED << kite_users, kite_sessions, kite_instruments, now, dbFaults, started, lean,
                  rid, account, windowLogins, pc, op, loc, calls, requests, writes, resp, began, obtained >>

InitOracle ==
  /\ Boot(TRUE, 0)
  /\ fn \in { Applying("getInstrumentsRefreshCutoff", << t >>) : t \in ClockTimes }
          \cup { Applying("isRefreshRequired", << t, column, raised >>) :
                   t \in CheckTimes, column \in UNION { UpdateColumns(u) : u \in CheckTimes },
                   raised \in BOOLEAN }

NextOracle == Cutoff_Apply \/ Oracle_Apply

\* the freshness functions applied to timestamps
SpecOracle == InitOracle /\ [][NextOracle]_vars

(* ----------------- cookies (part_006 82-90, sessionOMS.ts) ---------------- *)
\* texts are sequences of characters
\* \w of a regular expression: letters, digits and "_"
WordChars ==
  { LowerCase[i] : i \in 1..Len(LowerCase) } \cup { UpperCase[i] : i \in 1..Len(UpperCase) }
  \cup { "0", "1", "2", "3", "4", "5", "6", "7", "8", "9", "_" }

\* the longest run of characters of set S at the start of text
RECURSIVE Run(_, _)
Run(text, S) ==
  IF text # << >> /\ text[1] \in S THEN << text[1] >> \o Run(Tail(text), S) ELSE << >>

\* (?=\s*\w+=) at the start of text
NameAhead(text) ==
  LET rest == SubSeq(text, Len(Run(text, {" "})) + 1, Len(text))
      word == Run(rest, WordChars)
  IN  word # << >> /\ Len(rest) > Len(word) /\ rest[Len(word) + 1] = "="

\* setCookie.split(/,(?=\s*\w+=)/)
RECURSIVE splitSetCookie(_)
splitSetCookie(text) ==
  LET cuts == { i \in 1..Len(text) :
                  text[i] = "," /\ NameAhead(SubSeq(text, i + 1, Len(text))) }
  IN  IF cuts = {} THEN << text >>
      ELSE LET i == CHOOSE j \in cuts : \A k \in cuts : j <= k
           IN  << SubSeq(text, 1, i - 1) >> \o splitSetCookie(SubSeq(text, i + 1, Len(text)))

\* text.trim()
RECURSIVE trim(_)
trim(text) ==
  IF text # << >> /\ text[1] = " " THEN trim(Tail(text))
  ELSE IF text # << >> /\ text[Len(text)] = " " THEN trim(SubSeq(text, 1, Len(text) - 1))
  ELSE text

\* cookie.split(";")[0].trim()
nameValue(cookie) == trim(Run(cookie, { c \in { cookie[i] : i \in 1..Len(cookie) } : c # ";" }))

\* parts.join(sep)
RECURSIVE join(_, _)
join(parts, sep) ==
  IF parts = << >> THEN << >>
  ELSE IF Len(parts) = 1 THEN parts[1]
  ELSE parts[1] \o sep \o join(Tail(parts), sep)

\* convertSetCookieToCookie
convertSetCookieToCookie(setCookie) ==
  LET cookies == splitSetCookie(setCookie)
  IN  join([i \in 1..Len(cookies) |-> nameValue(cookies[i])], << ";", " " >>)

\* the cookies the broker may set: with and without attributes, with a date that
\* holds a comma, with a name of word characters and with a name that holds "-"
MaxCookies == 2
Cookies ==
  {
    [name |-> << "a" >>, value |-> << "1" >>,
     attributes |-> << "P", "a", "t", "h", "=", "/" >>],
    [name |-> << "b" >>, value |-> << "2" >>,
     attributes |-> << "P", "a", "t", "h", "=", "/" >>],
    [name |-> << "c" >>, value |-> << "3" >>,
     attributes |-> << "P", "a", "t", "h", "=", "/" >>],
    [name |-> << "d" >>, value |-> << "4" >>,
     attributes |-> << "E", "x", "p", "i", "r", "e", "s", "=", "W", "e", "d", ",", " ", "2", "1", " ", "O", "c", "t", " ", "2", "0", "1", "5", " ", "0", "7", ":", "2", "8", ":", "0", "0", " ", "G", "M", "T" >>],
    [name |-> << "e", "_", "f" >>, value |-> << "5" >>,
     attributes |-> << >>],
    [name |-> << "x", "-", "y" >>, value |-> << "6" >>,
     attributes |-> << "P", "a", "t", "h", "=", "/" >>] }

\* one Set-Cookie line of a cookie
SetCookieLine(c) ==
  c.name \o << "=" >> \o c.value
  \o (IF c.attributes = << >> THEN << >> ELSE << ";", " " >> \o c.attributes)

\* response.headers.get("set-cookie"): the Set-Cookie lines of the response joined
\* by ", " (null without any); `|| ""` makes that the empty text
getSetCookie(batch) == join([i \in 1..Len(batch) |-> SetCookieLine(batch[i])], << ",", " " >>)

\* [loginCookies, twofaCookies].filter(Boolean).join(", ")
allCookies(loginCookies, twofaCookies) ==
  join(SelectSeq(<< loginCookies, twofaCookies >>, LAMBDA t : t # << >>), << ",", " " >>)

\* the cookies of one response, in the order sent
Batches == UNION { [1..n -> Cookies] : n \in 0..MaxCookies }

\* the raw cookies of a login and a 2FA response are merged and converted
Cookie_Apply ==
  /\ fn.name = "convertSetCookieToCookie" /\ fn.result = Null
  /\ fn' = [fn EXCEPT !.result =
              Some(convertSetCookieToCookie(allCookies(getSetCookie(fn.args[1]),
                                                       getSetCookie(fn.args[2]))))]
  /\ UNCHANGED << kite_users, kite_sessions, kite_instruments, now, dbFaults, started, lean,
                  rid, account, windowLogins, pc, op, loc, calls, requests, writes, resp, began, obtained >>

InitCookies ==
  /\ Boot(TRUE, 0)
  /\ fn \in { Applying("convertSetCookieToCookie", << login, twofa >>) :
                login \in Batches, twofa \in Batches }

\* the cookie conversion applied to the cookies of the two responses
SpecCookies == InitCookies /\ [][Cookie_Apply]_vars

(* ----------------------------- TOTP (totp.ts) ---------------------------- *)
\* base32Chars.indexOf(char), from 0
indexOf(char) ==
  LET alphabet == UpperCase \o << "2", "3", "4", "5", "6", "7" >>
  IN  (CHOOSE i \in 1..Len(alphabet) : alphabet[i] = char) - 1

\* val.toString(2).padStart(width, "0") as bits
RECURSIVE toBits(_, _)
toBits(val, width) ==
  IF width = 0 THEN << >> ELSE toBits(val \div 2, width - 1) \o << val % 2 >>

\* parseInt(bits, 2)
RECURSIVE parseBits(_)
parseBits(bits) ==
  IF bits = << >> THEN 0 ELSE 2 * parseBits(SubSeq(bits, 1, Len(bits) - 1)) + bits[Len(bits)]

\* the bits of the characters of a clean secret, in order
RECURSIVE secretBits(_)
secretBits(clean) ==
  IF clean = << >> THEN << >> ELSE toBits(indexOf(clean[1]), 5) \o secretBits(Tail(clean))

\* base32Decode of a secret of the alphabet: the whole bytes of its bits
base32Decode(secret) ==
  LET bits == secretBits(cleanSecret(secret))
  IN  [i \in 1..(Len(bits) \div 8) |-> parseBits(SubSeq(bits, 8 * (i - 1) + 1, 8 * i))]

\* the counter as `width` bytes, most significant first
RECURSIVE counterBytes(_, _)
counterBytes(counter, width) ==
  IF width = 0 THEN << >>
  ELSE counterBytes(counter \div 256, width - 1) \o << counter % 256 >>

\* crypto.subtle.sign("HMAC", key, message) with SHA-1: the digests of the keys and
\* counters used here
hmacSha1(key, message) ==
  CASE
       key = << 72, 101, 108, 108 >> /\ message = << 0, 0, 0, 0, 0, 0, 0, 0 >> ->
         << 205, 157, 162, 198, 157, 19, 216, 57, 139, 78, 119, 65, 251, 22, 37, 214, 198,
         241, 213, 74 >>
    [] key = << 72, 101, 108, 108 >> /\ message = << 0, 0, 0, 0, 0, 0, 0, 1 >> ->
         << 169, 47, 181, 214, 201, 188, 160, 97, 207, 69, 110, 53, 214, 13, 57, 189, 92, 61,
         227, 147 >>
    [] key = << 72, 101, 108, 108 >> /\ message = << 0, 0, 0, 0, 0, 0, 0, 2 >> ->
         << 34, 220, 186, 145, 174, 168, 114, 183, 140, 239, 101, 99, 221, 214, 75, 122, 143,
         169, 190, 140 >>
    [] key = << 72, 101, 108, 108 >> /\ message = << 0, 0, 0, 0, 2, 53, 35, 236 >> ->
         << 178, 245, 205, 70, 140, 18, 113, 202, 144, 67, 111, 226, 80, 212, 184, 199, 124,
         213, 36, 247 >>
    [] key = << 72, 101, 108, 108 >> /\ message = << 0, 0, 0, 0, 2, 53, 35, 237 >> ->
         << 1, 119, 29, 249, 146, 110, 203, 248, 96, 119, 156, 2, 124, 44, 15, 235, 13, 253,
         228, 177 >>
    [] key = << 72, 101, 108, 108 >> /\ message = << 0, 0, 0, 0, 2, 53, 35, 238 >> ->
         << 252, 156, 87, 165, 104, 233, 111, 140, 202, 210, 22, 72, 241, 61, 148, 175, 47,
         177, 81, 145 >>
    [] key = << 72, 101, 108, 108 >> /\ message = << 0, 0, 0, 0, 2, 115, 239, 7 >> ->
         << 105, 101, 236, 65, 89, 71, 253, 58, 254, 55, 162, 98, 171, 33, 121, 50, 108, 122,
         75, 39 >>
    [] key = << 72, 101, 108, 108 >> /\ message = << 0, 0, 0, 0, 2, 115, 239, 8 >> ->
         << 78, 157, 107, 42, 28, 237, 217, 98, 228, 242, 15, 187, 25, 210, 148, 224, 176,
         121, 29, 67 >>
    [] key = << 72, 101, 108, 108 >> /\ message = << 0, 0, 0, 0, 3, 249, 64, 170 >> ->
         << 155, 64, 93, 211, 255, 176, 168, 49, 67, 173, 13, 18, 52, 125, 13, 88, 139, 238,
         116, 227 >>
    [] key = << 72, 101, 108, 108 >> /\ message = << 0, 0, 0, 0, 3, 249, 64, 171 >> ->
         << 98, 54, 67, 202, 56, 232, 116, 31, 175, 145, 125, 25, 165, 186, 222, 33, 17, 186,
         160, 208 >>
    [] key = << 72, 101, 108, 108, 111, 33, 222, 173, 190, 239 >> /\ message = << 0, 0, 0, 0, 0, 0, 0, 0 >> ->
         << 44, 216, 233, 4, 227, 149, 167, 65, 72, 119, 170, 47, 130, 97, 225, 36, 53, 114,
         196, 53 >>
    [] key = << 72, 101, 108, 108, 111, 33, 222, 173, 190, 239 >> /\ message = << 0, 0, 0, 0, 0, 0, 0, 1 >> ->
         << 133, 63, 121, 182, 101, 10, 158, 60, 90, 129, 241, 121, 162, 9, 37, 59, 203, 190,
         116, 2 >>
    [] key = << 72, 101, 108, 108, 111, 33, 222, 173, 190, 239 >> /\ message = << 0, 0, 0, 0, 0, 0, 0, 2 >> ->
         << 231, 126, 129, 100, 82, 252, 248, 124, 125, 138, 175, 205, 115, 9, 196, 0, 6, 47,
         58, 135 >>
    [] key = << 72, 101, 108, 108, 111, 33, 222, 173, 190, 239 >> /\ message = << 0, 0, 0, 0, 2, 53, 35, 236 >> ->
         << 148, 240, 103, 76, 145, 167, 253, 65, 248, 182, 202, 243, 213, 0, 223, 25, 206,
         82, 195, 114 >>
    [] key = << 72, 101, 108, 108, 111, 33, 222, 173, 190, 239 >> /\ message = << 0, 0, 0, 0, 2, 53, 35, 237 >> ->
         << 76, 30, 194, 165, 115, 253, 62, 185, 139, 109, 51, 242, 98, 85, 7, 54, 209, 134,
         185, 51 >>
    [] key = << 72, 101, 108, 108, 111, 33, 222, 173, 190, 239 >> /\ message = << 0, 0, 0, 0, 2, 53, 35, 238 >> ->
         << 21, 222, 152, 39, 254, 159, 173, 231, 75, 164, 31, 35, 6, 156, 175, 233, 201, 97,
         99, 197 >>
    [] key = << 72, 101, 108, 108, 111, 33, 222, 173, 190, 239 >> /\ message = << 0, 0, 0, 0, 2, 115, 239, 7 >> ->
         << 150, 177, 190, 0, 189, 169, 200, 28, 252, 74, 88, 240, 173, 159, 241, 47, 94,
         206, 3, 239 >>
    [] key = << 72, 101, 108, 108, 111, 33, 222, 173, 190, 239 >> /\ message = << 0, 0, 0, 0, 2, 115, 239, 8 >> ->
         << 133, 31, 15, 31, 92, 181, 9, 206, 219, 41, 132, 137, 50, 56, 231, 86, 255, 193,
         194, 213 >>
    [] key = << 72, 101, 108, 108, 111, 33, 222, 173, 190, 239 >> /\ message = << 0, 0, 0, 0, 3, 249, 64, 170 >> ->
         << 164, 141, 149, 1, 21, 164, 31, 20, 177, 103, 222, 75, 150, 148, 182, 50, 95, 43,
         209, 248 >>
    [] key = << 72, 101, 108, 108, 111, 33, 222, 173, 190, 239 >> /\ message = << 0, 0, 0, 0, 3, 249, 64, 171 >> ->
         << 157, 187, 164, 63, 191, 46, 121, 136, 117, 24, 131, 40, 38, 162, 230, 38, 64, 68,
         41, 235 >>
    [] key = << 49, 50, 51, 52, 53, 54, 55, 56, 57, 48, 49, 50, 51, 52, 53, 54, 55, 56,
                  57, 48 >> /\ message = << 0, 0, 0, 0, 0, 0, 0, 0 >> ->
         << 204, 147, 207, 24, 80, 141, 148, 147, 76, 100, 182, 93, 139, 167, 102, 127, 183,
         205, 228, 176 >>
    [] key = << 49, 50, 51, 52, 53, 54, 55, 56, 57, 48, 49, 50, 51, 52, 53, 54, 55, 56,
                  57, 48 >> /\ message = << 0, 0, 0, 0, 0, 0, 0, 1 >> ->
         << 117, 164, 138, 25, 212, 203, 225, 0, 100, 78, 138, 193, 57, 126, 234, 116, 122,
         45, 51, 171 >>
    [] key = << 49, 50, 51, 52, 53, 54, 55, 56, 57, 48, 49, 50, 51, 52, 53, 54, 55, 56,
                  57, 48 >> /\ message = << 0, 0, 0, 0, 0, 0, 0, 2 >> ->
         << 11, 172, 183, 250, 8, 47, 239, 48, 120, 34, 17, 147, 139, 193, 197, 231, 4, 22,
         255, 68 >>
    [] key = << 49, 50, 51, 52, 53, 54, 55, 56, 57, 48, 49, 50, 51, 52, 53, 54, 55, 56,
                  57, 48 >> /\ message = << 0, 0, 0, 0, 2, 53, 35, 236 >> ->
         << 39, 140, 2, 229, 54, 16, 248, 76, 64, 189, 145, 53, 172, 212, 16, 16, 18, 65, 10,
         20 >>
    [] key = << 49, 50, 51, 52, 53, 54, 55, 56, 57, 48, 49, 50, 51, 52, 53, 54, 55, 56,
                  57, 48 >> /\ message = << 0, 0, 0, 0, 2, 53, 35, 237 >> ->
         << 176, 9, 43, 33, 208, 72, 175, 32, 157, 160, 161, 221, 212, 152, 173, 232, 167,
         148, 135, 237 >>
    [] key = << 49, 50, 51, 52, 53, 54, 55, 56, 57, 48, 49, 50, 51, 52, 53, 54, 55, 56,
                  57, 48 >> /\ message = << 0, 0, 0, 0, 2, 53, 35, 238 >> ->
         << 28, 48, 92, 150, 148, 133, 24, 7, 48, 11, 194, 137, 103, 119, 142, 211, 219, 19,
         90, 116 >>
    [] key = << 49, 50, 51, 52, 53, 54, 55, 56, 57, 48, 49, 50, 51, 52, 53, 54, 55, 56,
                  57, 48 >> /\ message = << 0, 0, 0, 0, 2, 115, 239, 7 >> ->
         << 144, 124, 209, 169, 17, 101, 100, 236, 185, 213, 209, 120, 3, 37, 242, 70, 23,
         63, 231, 3 >>
    [] key = << 49, 50, 51, 52, 53, 54, 55, 56, 57, 48, 49, 50, 51, 52, 53, 54, 55, 56,
                  57, 48 >> /\ message = << 0, 0, 0, 0, 2, 115, 239, 8 >> ->
         << 40, 187, 117, 6, 154, 36, 92, 123, 64, 156, 152, 141, 98, 151, 204, 211, 181,
         170, 42, 84 >>
    [] key = << 49, 50, 51, 52, 53, 54, 55, 56, 57, 48, 49, 50, 51, 52, 53, 54, 55, 56,
                  57, 48 >> /\ message = << 0, 0, 0, 0, 3, 249, 64, 170 >> ->
         << 37, 163, 38, 211, 31, 195, 102, 36, 76, 173, 5, 73, 118, 2, 12, 123, 86, 177, 61,
         95 >>
    [] key = << 49, 50, 51, 52, 53, 54, 55, 56, 57, 48, 49, 50, 51, 52, 53, 54, 55, 56,
                  57, 48 >> /\ message = << 0, 0, 0, 0, 3, 249, 64, 171 >> ->
         << 0, 8, 45, 162, 242, 45, 122, 44, 135, 109, 169, 57, 139, 17, 97, 20, 78, 169,
         122, 122 >>

\* faulty variant of generateTotpValueAt: the code is not padded
generateTotpValueUnpadded(totpSecret, epoch) ==
  LET hash == hmacSha1(base32Decode(totpSecret), counterBytes(epoch \div 30, 8))
      offset == hash[Len(hash)] % 16
      binary == (hash[offset + 1] % 128) * 16777216 + hash[offset + 2] * 65536
                + hash[offset + 3] * 256 + hash[offset + 4]
  IN  IF base32DecodeThrows(totpSecret) THEN [threw |-> TRUE, value |-> << >>]
      ELSE [threw |-> FALSE, value |-> Decimal(binary % 1000000)]

\* generateTotpValue(totpSecret) at Date.now() / 1000 = epoch, timeStep 30
generateTotpValueAt(totpSecret, epoch) ==
  LET counter == epoch \div 30
      hash == hmacSha1(base32Decode(totpSecret), counterBytes(counter, 8))
      offset == hash[Len(hash)] % 16
      binary == (hash[offset + 1] % 128) * 16777216 + hash[offset + 2] * 65536
                + hash[offset + 3] * 256 + hash[offset + 4]
      otp == Decimal(binary % 1000000)
  IN  IF base32DecodeThrows(totpSecret) THEN [threw |-> TRUE, value |-> << >>]
      ELSE [threw |-> FALSE, value |-> [i \in 1..(6 - Len(otp)) |-> 48] \o otp]

\* secrets: the key of the RFC 6238 vectors in upper and in lower case, a second
\* key, the same in lower case with padding, a secret whose bits do not fill whole
\* bytes, and one with a character outside the alphabet
Secrets ==
  << << "G", "E", "Z", "D", "G", "N", "B", "V", "G", "Y", "3", "T", "Q", "O", "J", "Q", "G",
     "E", "Z", "D", "G", "N", "B", "V", "G", "Y", "3", "T", "Q", "O", "J", "Q" >>,
     << "g", "e", "z", "d", "g", "n", "b", "v", "g", "y", "3", "t", "q", "o", "j", "q", "g",
     "e", "z", "d", "g", "n", "b", "v", "g", "y", "3", "t", "q", "o", "j", "q" >>,
     << "J", "B", "S", "W", "Y", "3", "D", "P", "E", "H", "P", "K", "3", "P", "X", "P" >>,
     << "j", "b", "s", "w", "y", "3", "d", "p", "e", "h", "p", "k", "3", "p", "x", "p", "=",
     "=", "=", "=", "=", "=" >>,
     << "J", "B", "S", "W", "Y", "3", "D" >>,
     << "J", "B", "!", "W", "Y", "3", "D", "P" >> >>

\* times in seconds: those of the RFC 6238 vectors, the first and last second of
\* their time steps, and the first second of the next step
Epochs ==
  { 0, 30, 59, 60, 1111111080, 1111111109, 1111111110, 1111111111, 1111111139, 1111111140,
    1234567890, 1234567919, 1234567920, 1999999980, 2000000000, 2000000009, 2000000010 }

\* generateTotpValue is applied
Totp_Apply ==
  /\ fn.name = "generateTotpValue" /\ fn.result = Null
  /\ fn' = [fn EXCEPT !.result = Some(generateTotpValueAt(Secrets[fn.args[1]], fn.args[2]))]
  /\ UNCHANGED << kite_users, kite_sessions, kite_instruments, now, dbFaults, started, lean,
                  rid, account, windowLogins, pc, op, loc, calls, requests, writes, resp, began, obtained >>

InitTotp ==
  /\ Boot(TRUE, 0)
  /\ fn \in { Applying("generateTotpValue", << i, epoch >>) :
                i \in 1..Len(Secrets), epoch \in Epochs }

\* the TOTP generator applied to secrets and times
SpecTotp == InitTotp /\ [][Totp_Apply]_vars

(* ------------------------------ handleTotp ----------------------------- *)
\* the requests of /totp: a secret of the alphabet, one with a foreign character,
\* and, in the full environment, no secret, another method, another content type
TotpRequests ==
  { [method |-> "POST", formOk |-> TRUE, totp_secret |-> Secrets[5]] }
  \cup (IF lean THEN {}
        ELSE { [method |-> "POST", formOk |-> TRUE, totp_secret |-> Secrets[Len(Secrets)]],
               [method |-> "POST", formOk |-> TRUE, totp_secret |-> << >>],
               [method |-> "GET", formOk |-> TRUE, totp_secret |-> Secrets[5]],
               [method |-> "POST", formOk |-> FALSE, totp_secret |-> Secrets[5]] })

\* the early returns of handleTotp: method, content type, required field
TotpInputError(method, formOk, totp_secret) ==
  IF method # "POST" THEN inputError("Method not allowed")
  ELSE IF ~formOk THEN inputError("Content-Type must be application/x-www-form-urlencoded")
  ELSE IF totp_secret = << >> THEN inputError("totp_secret is required")
  ELSE NoResp

\* the request up to `await generateTotpValue`
Totp_Begin(p) ==
  \E r \in TotpRequests :
    LET bad == TotpInputError(r.method, r.formOk, r.totp_secret)
    IN  /\ StartRequest(p, "totp", NoForm)
        /\ writes' = [writes EXCEPT ![p] = << >>]
        /\ IF bad # NoResp
           THEN Return(p, bad)
           ELSE Await(p, "totp", [NoLoc EXCEPT !.form.totp_secret = r.totp_secret])
        /\ UNCHANGED << kite_users, kite_sessions, kite_instruments, now, lean, fn, dbFaults,
                        windowLogins, began, obtained >>

\* faulty variant of TotpResponse: the exception of the generator is not caught
\* and a code of zeros is answered
TotpResponseUncaught(generated) ==
  successResponse([message |-> Some("TOTP generated successfully"),
                   totp_value |-> Some([code |-> IF generated.threw THEN << 48, 48, 48, 48, 48, 48 >>
                                                 ELSE generated.value])])

\* handleTotp's answer to the outcome of generateTotpValue
TotpResponse(generated) ==
  IF generated.threw
  THEN inputError("Invalid TOTP secret format. Must be a valid base32 encoded string.")
  ELSE successResponse([message |-> Some("TOTP generated successfully"),
                        totp_value |-> Some([code |-> generated.value])])

\* generateTotpValue returns or throws, at one of the times of Epochs, and
\* handleTotp answers
Totp_Generate(p) ==
  /\ pc[p] = "totp"
  /\ \E epoch \in { 59, 1111111109 } :
       Return(p, TotpResponse(generateTotpValueAt(loc[p].form.totp_secret, epoch)))
  /\ UNCHANGED << kite_users, kite_sessions, kite_instruments, now, lean, fn, dbFaults, started,
                  rid, account, op, calls, requests, writes, windowLogins, began, obtained >>

(* ------------------------------- the clock ------------------------------ *)
\* a second passes.  created_at values are only compared with each other, so a
\* second in which no session was created is not told apart from the one before
Tick ==
  /\ now < MaxClock
  /\ \E i \in 1..Len(kite_sessions) : kite_sessions[i].created_at = now
  /\ now' = now + 1
  /\ UNCHANGED << kite_users, kite_sessions, dbFaults, started, lean, fn, kite_instruments, rid, account,
                  windowLogins, pc, op, loc, calls, requests, writes, resp, began, obtained >>

\* a clock instant passes
Advance ==
  /\ now < MaxClock
  /\ now' = now + 1
  /\ UNCHANGED << kite_users, kite_sessions, kite_instruments, dbFaults, started, lean, fn, rid,
                  account, windowLogins, pc, op, loc, calls, requests, writes, resp, began, obtained >>

(* ---------------------------- specifications ---------------------------- *)
Begin(p) == Login_Begin(p) \/ Logout_Begin(p) \/ Register_Begin(p)

Step(p) ==
  \/ Login_Verified(p)
  \/ Login_Probe(p)
  \/ OMS_Login(p)
  \/ OMS_Twofa(p)
  \/ API_Connect(p)
  \/ API_Finish(p)
  \/ API_Token(p)
  \/ OMS_Profile(p)
  \/ Logout_Invalidate(p)
  \/ Register_Write(p)

Next == Tick \/ \E p \in Procs : Begin(p) \/ Step(p)

\* requests overlap freely, in the reduced environment; SQLite statements do not
\* raise
Spec == Init /\ [][Next]_vars

NextSeq == Tick \/ Begin("p1") \/ Step("p1")

\* the clients send one request at a time, in the full environment
SpecSeq == InitFull /\ [][NextSeq]_vars

\* SpecSeq where every await of the request in flight is eventually resumed: each
\* upstream call answers or fails, each password verification ends
SpecSeqLive == SpecSeq /\ WF_vars(Step("p1"))

\* the clients send one request at a time, in the reduced environment, and up to
\* MaxDbFaults SQLite statements raise
SpecFaults == InitFaults /\ [][NextSeq]_vars

NextRegister == NextSeq \/ Register_Begin("p2") \/ Register_Write("p2")

\* one client sends logins, logouts and registrations one at a time, in the full
\* environment, while registrations of a second client overlap with them
SpecRegister == InitFull /\ [][NextRegister]_vars

NextTotp == NextSeq \/ Totp_Begin("p2") \/ Totp_Generate("p2")

\* one client sends logins, logouts and registrations one at a time, in the full
\* environment, while /totp requests of a second client overlap with them
SpecTotpLogin == InitFull /\ [][NextTotp]_vars

NextRefresh ==
  \/ Advance
  \/ \E p \in Procs : \/ Refresh_Begin(p)
                      \/ Query_Begin(p)
                      \/ Refresh_Fetch(p)
                      \/ Refresh_Text(p)

\* refresh and query requests overlap freely, and up to MaxDbFaults SQLite
\* statements raise
SpecRefresh == InitFaults /\ [][NextRefresh]_vars

(* ------------------------------ properties ------------------------------ *)
Last(s) == s[Len(s)]
IsPrefix(s, t) == Len(s) <= Len(t) /\ SubSeq(t, 1, Len(s)) = s
\* the positions of the rows of account u, before and after a step
RowsOf(u) == { i \in 1..Len(kite_sessions) : kite_sessions[i].user_id = u }
RowsOfAfter(u) == { i \in 1..Len(kite_sessions') : kite_sessions'[i].user_id = u }
\* the rows of the other accounts, in order
RowsOfOthers(u) == SelectSeq(kite_sessions, LAMBDA r : r.user_id # u)
\* the row of account u inserted last
LastInserted(u) == kite_sessions[CHOOSE i \in RowsOf(u) : \A j \in RowsOf(u) : j <= i]
\* the step in which the handler of slot p returns
Returns(p) == pc'[p] = "done" /\ (pc[p] # "done" \/ rid'[p] # rid[p])
\* slot p holds a login answered from the cache
CacheHit(p) ==
  /\ op[p] = "login" /\ pc[p] = "done" /\ resp[p].status = "success"
  /\ calls[p] = << [endpoint |-> "probe", ans |-> Answer(200)] >>

\* C1  Cache hit: when the latest session read by handleLogin carries an enctoken
\* and the profile probe answers 200, the handler returns the stored payload of
\* that record as it is, has fetched nothing upstream but the probe, and has run no
\* statement that changes kite_sessions.
C1_CacheHit ==
  [][\A p \in Procs :
       (pc[p] = "probe" /\ pc'[p] # "probe" /\ Last(calls'[p]).ans = Answer(200)) =>
         /\ pc'[p] = "done"
         /\ resp'[p].status = "success"
         /\ resp'[p].data = loc[p].existing[1].kite_session
         /\ calls'[p] = << [endpoint |-> "probe", ans |-> Answer(200)] >>
         /\ writes'[p] = << >>
         /\ kite_sessions' = kite_sessions]_vars

\* a login was answered from the cache
C1_Witness == \E p \in Procs : CacheHit(p) /\ kite_sessions # << >>

\* C2  Session cache idempotence: with logins sent one after the other, at most one
\* login POST goes upstream per cache-valid window of an account, so a login whose
\* probe answers 200 after a fresh login sends none.
C2_OneLoginPerWindow == \A u \in Users : windowLogins[u] <= 1

\* a fresh login of the account was followed by a login answered from the cache
C2_Witness ==
  \E p \in Procs :
    /\ CacheHit(p)
    /\ windowLogins[account[p]] = 1
    /\ \E r \in SessionsOf(account[p]) : r.kite_session = resp[p].data

\* C3  A login that fails at a protocol step (login, 2FA, TOTP generation, connect,
\* connect/finish, token exchange, profile fetch) has inserted no session: in the
\* step it returns, and in the whole invocation, kite_sessions is left as it was.
C3_FailedLoginInsertsNothing ==
  [][\A p \in Procs :
       (op'[p] = "login" /\ Returns(p) /\ resp'[p].status = "error" /\ calls'[p] # << >>) =>
         /\ kite_sessions' = kite_sessions
         /\ writes'[p] = << >>]_vars

\* a login failed at the token exchange, the last step of the API handshake
C3_Witness ==
  \E p \in Procs :
    /\ op[p] = "login" /\ pc[p] = "done" /\ resp[p].status = "error"
    /\ calls[p] # << >> /\ Last(calls[p]).endpoint = "token"

\* C4  Invalid probe means re-authentication: when the latest session read is absent
\* or has no enctoken, or when the probe answers anything but 200 or fails, the
\* handler sends the login POST of the OMS driver; after the 2FA the API driver runs
\* exactly when api_key and api_secret were given; and a login that succeeds this way
\* appends one new session, holding the payload it returns.
C4_InvalidMeansReauth ==
  [][\A p \in Procs :
       /\ (pc[p] = "verify" /\ pc'[p] \notin {"verify", "done"}
             /\ NoLiveToken(loc'[p].existing)) => pc'[p] = "login"
       /\ (pc[p] = "probe" /\ pc'[p] # "probe" /\ Last(calls'[p]).ans # Answer(200)) =>
            pc'[p] = "login"
       /\ (pc[p] = "twofa" /\ pc'[p] \notin {"twofa", "done"}) =>
            pc'[p] = IF loc[p].form.api_key # "" /\ loc[p].form.api_secret # ""
                     THEN "connect" ELSE "profile"
       /\ (pc[p] \in {"token", "profile"} /\ pc'[p] = "done" /\ resp'[p].status = "success") =>
            /\ Len(kite_sessions') = Len(kite_sessions) + 1
            /\ IsPrefix(kite_sessions, kite_sessions')
            /\ Last(kite_sessions').kite_session = resp'[p].data
            /\ Last(kite_sessions').created_at = now]_vars

\* a login whose probe was not answered with 200 authenticated again and inserted
C4_Witness ==
  \E p \in Procs :
    /\ op[p] = "login" /\ pc[p] = "done" /\ resp[p].status = "success"
    /\ Len(calls[p]) > 1
    /\ calls[p][1].endpoint = "probe" /\ calls[p][1].ans # Answer(200)
    /\ calls[p][2].endpoint = "login"
    /\ Len(writes[p]) = 1 /\ writes[p][1].stmt = "insert" /\ writes[p][1].changes = 1

\* C5  Sessions are never updated in place: every step that is not the DELETE of a
\* logout leaves the existing rows as they are and at most appends rows, and the
\* DELETE of a logout removes rows of its account only.
C5_NeverUpdatedInPlace ==
  [][\/ IsPrefix(kite_sessions, kite_sessions')
     \/ \E p \in Procs :
          /\ op'[p] = "logout" /\ Returns(p)
          /\ kite_sessions' = RowsOfOthers(account'[p])]_vars

\* an account holds two sessions: the second login left the first row in place
C5_Witness == \E u \in Users : Cardinality(RowsOf(u)) >= 2

\* C6  Most recent wins: the session a login or a logout reads as current is the
\* one of the account inserted last, also when several were created within one
\* second.
C6_MostRecentWins ==
  [][\A p \in Procs :
       /\ (pc[p] = "verify" /\ pc'[p] \in {"probe", "login"}
             /\ RowsOf(account[p]) # {}) =>
            loc'[p].existing = Some(LastInserted(account[p]))
       /\ (op'[p] = "logout" /\ pc[p] # "invalidate" /\ pc'[p] = "invalidate") =>
            loc'[p].existing = Some(LastInserted(account'[p]))]_vars

\* two fresh logins of one account completed within one second, each storing its
\* own enctoken, and the next login has read the session of the earlier one
C6_OlderRecordRead ==
  \E p \in Procs :
    /\ op[p] = "login" /\ pc[p] = "probe"
    /\ Len(kite_sessions) = 2
    /\ RowsOf(account[p]) = {1, 2}
    /\ kite_sessions[1].created_at = kite_sessions[2].created_at
    /\ kite_sessions[1].enctoken # Null /\ kite_sessions[2].enctoken # Null
    /\ kite_sessions[1].enctoken # kite_sessions[2].enctoken
    /\ loc[p].existing = Some(kite_sessions[1])

C8_LogoutDeletesAll ==
  [][\A p \in Procs :
       /\ (pc[p] = "invalidate" /\ pc'[p] # "invalidate") =>
            /\ pc'[p] = "done"
            /\ kite_sessions' = RowsOfOthers(account[p])
       /\ (op'[p] = "logout" /\ Returns(p) /\ writes'[p] # << >>) =>
            /\ Last(writes'[p]).user_id = account'[p]
            /\ Last(writes'[p]).changes = Cardinality(RowsOf(account'[p]))
            /\ kite_sessions' = RowsOfOthers(account'[p])
       /\ (op'[p] = "logout" /\ Returns(p) /\ resp'[p].status = "success") =>
            /\ writes'[p] # << >>
            /\ RowsOf(account'[p]) # {}
            /\ RowsOfAfter(account'[p]) = {}]_vars

\* a logout whose upstream invalidation was not answered with success deleted the
\* sessions of its account, and a session of another account is still there
C8_Witness ==
  \E p \in Procs :
    /\ op[p] = "logout" /\ pc[p] = "done" /\ resp[p].status = "success"
    /\ calls[p] # << >> /\ calls[p][1].ans # Answer(200)
    /\ kite_sessions # << >>
    /\ RowsOf(account[p]) = {}

\* C9  A logout of an account without any session is answered with an
\* AuthenticationException error, fetches nothing upstream and deletes nothing.
C9_LogoutWithoutSession ==
  [][\A p \in Procs :
       (op'[p] = "logout" /\ rid'[p] # rid[p] /\ resp'[p].error_type # "InputException"
          /\ RowsOf(account'[p]) = {}) =>
         /\ pc'[p] = "done"
         /\ resp'[p].status = "error"
         /\ resp'[p].error_type = "AuthenticationException"
         /\ calls'[p] = << >>
         /\ writes'[p] = << >>
         /\ kite_sessions' = kite_sessions]_vars

\* a registered account without a session was logged out
C9_Witness ==
  \E p \in Procs :
    /\ op[p] = "logout" /\ pc[p] = "done"
    /\ resp[p].message = "No active session found for this user"
    /\ SelectUser(account[p]) # {}
    /\ calls[p] = << >>

\* C10  Handshake redirect contract: a connect answer whose status is not 302 is the
\* last upstream call of the login, which ends with the failure "Failed to get
\* session ID": no connect/finish and no token exchange follow.
C10_ConnectNot302 ==
  \A p \in Procs : \A i \in 1..Len(calls[p]) :
    (calls[p][i].endpoint = "connect" /\ ~calls[p][i].ans.threw
       /\ calls[p][i].ans.status # 302) =>
      /\ i = Len(calls[p])
      /\ pc[p] = "done"
      /\ resp[p].status = "error"
      /\ resp[p].message = "Failed to get session ID"
      /\ writes[p] = << >>

\* a connect request was answered with 200
C10_Witness ==
  \E p \in Procs :
    /\ pc[p] = "done" /\ calls[p] # << >>
    /\ Last(calls[p]) = [endpoint |-> "connect", ans |-> Answer(200)]

\* the endpoints slot p has fetched, in order
Endpoints(p) == [i \in 1..Len(calls[p]) |-> calls[p][i].endpoint]
\* the endpoints of a session acquisition: those fetched after the probe, if any
Acquisition(p) ==
  IF calls[p] # << >> /\ calls[p][1].endpoint = "probe"
  THEN SubSeq(Endpoints(p), 2, Len(calls[p]))
  ELSE Endpoints(p)
\* the upstream requests of the API driver, in the order of generateAPISession
ApiOrder == << "login", "twofa", "connect", "finish", "token" >>

\* C11  API driver step ordering: a login with API credentials fetches login, 2FA,
\* connect, connect/finish and token exchange in this order; connect is sent only
\* after the OMS driver returned success, connect/finish only with a sess_id taken
\* from a 302 answer of connect, the token exchange only with a request_token taken
\* from a 302 answer of connect/finish; a connect or connect/finish answer that
\* yields no such value is the last call of the login, which ends with a failure.
C11_ApiStepOrder ==
  \A p \in Procs :
    (op[p] = "login" /\ \E i \in 1..Len(calls[p]) : calls[p][i].endpoint = "connect") =>
      /\ IsPrefix(Acquisition(p), ApiOrder)
      /\ \A i \in 1..Len(calls[p]) :
           /\ calls[p][i].endpoint = "connect" =>
                i > 1 /\ calls[p][i-1].endpoint = "twofa" /\ ResponseOk(calls[p][i-1].ans)
           /\ (calls[p][i].endpoint \in {"finish", "token"}) =>
                calls[p][i-1].ans = Answer(302)
      /\ (pc[p] \in {"connect", "finish", "token"}) => loc[p].oms.success
      /\ (pc[p] \in {"finish", "token"}) =>
           loc[p].hs.connect = Some(Answer(302)) /\ Truthy(loc[p].hs.sess_id)
      /\ pc[p] = "token" =>
           loc[p].hs.finish = Some(Answer(302)) /\ Truthy(loc[p].hs.request_token)
      /\ (pc[p] = "done" /\ Last(calls[p]).endpoint \in {"connect", "finish"}) =>
           /\ resp[p].status = "error"
           /\ resp[p].message = IF Last(calls[p]).endpoint = "connect"
                                THEN "Failed to get session ID"
                                ELSE "Failed to get request token"
           /\ writes[p] = << >>

\* a login got a sess_id from connect, and its connect/finish was answered with a
\* 302 that carried no request_token
C11_Witness ==
  \E p \in Procs :
    /\ op[p] = "login" /\ pc[p] = "done"
    /\ Acquisition(p) = SubSeq(ApiOrder, 1, 4)
    /\ Last(calls[p]).ans = Answer(302)
    /\ resp[p].message = "Failed to get request token"

\* an answer of the login or 2FA POST on which generateOMSSession goes on
StepSucceeded(ans) == ResponseOk(ans) /\ ans.body = "success"

\* C12  OMS driver abort on step failure: a login POST answered non-2xx, or with a
\* body that does not report "success", is the last upstream call of the login: no
\* 2FA request follows and the login ends with the driver's error; a 2FA POST
\* answered non-2xx or non-success is the last call too, and the login ends with the
\* driver's error, returning no session and storing none.
C12_OmsAbortsOnFailure ==
  \A p \in Procs : \A i \in 1..Len(calls[p]) :
    /\ calls[p][i].endpoint = "twofa" =>
         i > 1 /\ calls[p][i-1].endpoint = "login" /\ StepSucceeded(calls[p][i-1].ans)
    /\ (calls[p][i].endpoint \in {"login", "twofa"} /\ ~StepSucceeded(calls[p][i].ans)) =>
         /\ i = Len(calls[p])
         /\ pc[p] = "done"
         /\ resp[p].status = "error"
         /\ resp[p].error_type = "AuthenticationException"
         /\ resp[p].data = NoData
         /\ writes[p] = << >>

\* a 2FA POST was answered 200 with a body that does not report success
C12_Witness ==
  \E p \in Procs :
    /\ pc[p] = "done" /\ calls[p] # << >>
    /\ Last(calls[p]).endpoint = "twofa"
    /\ Last(calls[p]).ans.status = 200 /\ Last(calls[p]).ans.body = "error"

\* the answer on which the code goes on to its next upstream request
GoesOn(call) ==
  CASE call.endpoint = "probe" -> call.ans # Answer(200)
    [] call.endpoint \in {"login", "twofa"} -> StepSucceeded(call.ans)
    [] call.endpoint \in {"connect", "finish"} -> call.ans = Answer(302)
    [] OTHER -> FALSE

\* C13  No retries: within one login no upstream endpoint (login, 2FA, connect,
\* connect/finish, token exchange, profile) is fetched twice, and a step that fails
\* is the last upstream call of the login, which ends with an error.
C13_NoRetries ==
  \A p \in Procs :
    op[p] = "login" =>
      /\ \A i, j \in 1..Len(calls[p]) : calls[p][i].endpoint = calls[p][j].endpoint => i = j
      /\ \A i \in 1..Len(calls[p]) : i < Len(calls[p]) => GoesOn(calls[p][i])
      /\ \A i \in 1..Len(calls[p]) :
           (calls[p][i].endpoint # "probe" /\ ~ResponseOk(calls[p][i].ans)
              /\ calls[p][i].ans # Answer(302)) =>
             /\ i = Len(calls[p]) /\ pc[p] = "done" /\ resp[p].status = "error"

\* a login ended at a connect request that raised, after one login and one 2FA POST
C13_Witness ==
  \E p \in Procs :
    /\ op[p] = "login" /\ pc[p] = "done" /\ resp[p].status = "error"
    /\ Acquisition(p) = SubSeq(ApiOrder, 1, 3)
    /\ Last(calls[p]).ans = Threw

\* the value of property k of a serialized payload, Null when it has none
Property(text, k) ==
  IF \E kv \in text.json : kv[1] = k THEN Some((CHOOSE kv \in text.json : kv[1] = k)[2])
  ELSE Null

\* C14  When the OMS driver and the API handshake both succeeded, the login returns
\* the API session payload and stores that payload in the new session; the session
\* is of type API, holds the api_key and the access_token of the payload, and its
\* enctoken column holds the enctoken the OMS driver returned, which is the token a
\* later login probes.
C14_ApiPayloadAuthoritative ==
  [][\A p \in Procs :
       (pc[p] = "token" /\ pc'[p] = "done" /\ resp'[p].status = "success"
          /\ Len(kite_sessions') > Len(kite_sessions)) =>
         LET row == Last(kite_sessions')
         IN  /\ row.kite_session = resp'[p].data
             /\ Property(resp'[p].data, "access_token") # Null
             /\ Property(resp'[p].data, "enctoken") = Null
             /\ row.login_type = "API"
             /\ row.api_key = Property(resp'[p].data, "api_key")
             /\ row.access_token = Property(resp'[p].data, "access_token")
             /\ row.enctoken = loc[p].oms.enctoken
             /\ Probeable(Some(row)) <=> Truthy(loc[p].oms.enctoken)]_vars

\* a login with API credentials succeeded and the session it stored carries the
\* enctoken of its OMS session
C14_Witness ==
  \E p \in Procs :
    /\ op[p] = "login" /\ pc[p] = "done" /\ resp[p].status = "success"
    /\ Acquisition(p) = ApiOrder
    /\ kite_sessions # << >>
    /\ Last(kite_sessions).login_type = "API"
    /\ Last(kite_sessions).enctoken = Some(rid[p])
    /\ Last(kite_sessions).kite_session = resp[p].data

\* slot p ran an INSERT that raised
InsertRaised(p) ==
  writes[p] # << >> /\ Last(writes[p]).stmt = "insert" /\ Last(writes[p]).changes = 0

\* C15  Write-after-success degradation: when a login obtained a fresh session and
\* the INSERT of the session raises, the login still returns a success response
\* that carries the session just obtained (the enctoken of this OMS session, or the
\* access_token of this API session), and kite_sessions is left as it was.
C15_InsertFailureStillSuccess ==
  [][\A p \in Procs :
       (pc[p] \in {"token", "profile"} /\ pc'[p] = "done" /\ InsertRaised(p)') =>
         /\ resp'[p].status = "success"
         /\ resp'[p].http = 200
         /\ kite_sessions' = kite_sessions
         /\ IF pc[p] = "profile"
            THEN /\ Property(resp'[p].data, "enctoken") = loc[p].oms.enctoken
                 /\ Property(resp'[p].data, "user_id") = Some(loc[p].oms.user_id)
            ELSE Property(resp'[p].data, "access_token") = Some(rid[p])]_vars

\* a login returned a fresh session that the raised INSERT did not store
C15_Witness ==
  \E p \in Procs :
    /\ op[p] = "login" /\ pc[p] = "done" /\ resp[p].status = "success"
    /\ InsertRaised(p)
    /\ Property(resp[p].data, "enctoken") = Some(rid[p])
    /\ \A i \in 1..Len(kite_sessions) : kite_sessions[i].enctoken # Some(rid[p])

\* a statement of slot p raised in this step
Raised(p) == dbFaults' < dbFaults /\ (pc'[p] # pc[p] \/ rid'[p] # rid[p])
\* slot p starts a request in this step
Starts(p, handler) == rid'[p] # rid[p] /\ op'[p] = handler

\* C16  (as stated) Read-path storage failures fail the request: when the read of
\* the account or of the latest session raises during login or logout, the request
\* ends with an error response, having fetched nothing upstream and deleted nothing.
C16_ReadFailureFailsRequest ==
  [][\A p \in Procs :
       (Raised(p) /\ (Starts(p, "login") \/ Starts(p, "logout") \/ pc[p] = "verify")) =>
         /\ pc'[p] = "done"
         /\ resp'[p].status = "error"
         /\ calls'[p] = << >>
         /\ kite_sessions' = kite_sessions]_vars

\* C16  (amended) A raise of the account read of login, or of the session read of
\* logout, ends the request with a DatabaseException error, with nothing fetched
\* upstream and nothing deleted; a raise of the session read of login is dropped:
\* the login goes on as if the account had no session, to the login POST of a fresh
\* authentication, without a probe.
C16_ReadFailures ==
  [][\A p \in Procs :
       /\ (Raised(p) /\ (Starts(p, "login") \/ Starts(p, "logout"))) =>
            /\ pc'[p] = "done"
            /\ resp'[p].status = "error"
            /\ resp'[p].error_type = "DatabaseException"
            /\ resp'[p].http = 500
            /\ calls'[p] = << >>
            /\ kite_sessions' = kite_sessions
       /\ (Raised(p) /\ pc[p] = "verify") =>
            /\ pc'[p] = "login"
            /\ loc'[p].existing = Null
            /\ calls'[p] = << >>
            /\ kite_sessions' = kite_sessions]_vars

\* the latest session of the account carries an enctoken, the read of it raised,
\* and the login is about to send the login POST without having probed
C16_Witness ==
  \E p \in Procs :
    /\ op[p] = "login" /\ pc[p] = "login"
    /\ loc[p].existing = Null
    /\ calls[p] = << >>
    /\ dbFaults < MaxDbFaults
    /\ SessionsOf(account[p]) # {}
    /\ \A r \in LatestSession(account[p]) : Truthy(r.enctoken)

\* the message of the AuthenticationException a login returns after upstream call
\* `call` failed; secret_ok: the totp_secret of the account decodes as base32
StepMessage(call, secret_ok) ==
  CASE call.endpoint = "login" ->
         (IF call.ans.threw THEN "fetch failed"
          ELSE IF ~ResponseOk(call.ans) THEN "Login failed [status]: body"
          ELSE IF call.ans.body # "success" THEN "login body"
          ELSE IF ~secret_ok THEN "Invalid base32 character"
          ELSE "")
    [] call.endpoint = "twofa" ->
         (IF call.ans.threw THEN "fetch failed"
          ELSE IF ~ResponseOk(call.ans) THEN "2FA failed [status]: body"
          ELSE "twofa body")
    [] call.endpoint = "connect" -> "Failed to get session ID"
    [] call.endpoint = "finish" -> "Failed to get request token"
    [] call.endpoint = "token" -> "Failed to generate session token"
    [] call.endpoint = "profile" -> "Failed to get user profile"
    [] OTHER -> ""

\* slot p holds a login that ended with an authentication failure
AuthFailure(p) ==
  /\ op[p] = "login" /\ pc[p] = "done"
  /\ resp[p].status = "error" /\ resp[p].error_type = "AuthenticationException"

\* C17  (as stated) Every authentication failure of a login is answered with the
\* one generic "Invalid credentials" response, whichever step failed (local
\* credential check, broker login, 2FA, API handshake, profile fetch).
C17_GenericAuthFailure ==
  \A p \in Procs : AuthFailure(p) => resp[p] = authError("Invalid credentials")

\* C17  (amended) Every authentication failure of a login is an
\* AuthenticationException with HTTP 401.  A failure of the local credential check
\* (unknown account, wrong password, wrong totp_secret) is answered with the same
\* response "Invalid credentials" in all three cases; a failure of an upstream step
\* is answered with the error text of that step, which names the step.
C17_AuthFailureMessages ==
  \A p \in Procs :
    AuthFailure(p) =>
      /\ resp[p].http = 401
      /\ resp[p].data = NoData
      /\ IF calls[p] = << >>
         THEN resp[p] = authError("Invalid credentials")
         ELSE /\ resp[p].message # "Invalid credentials"
              /\ \E ok \in BOOLEAN : resp[p].message = StepMessage(Last(calls[p]), ok)

\* a login was answered with the error text of the 2FA step
C17_Witness ==
  \E p \in Procs :
    /\ AuthFailure(p)
    /\ calls[p] # << >> /\ Last(calls[p]).endpoint = "twofa"
    /\ resp[p].message = "2FA failed [status]: body"

\* slot p ends the write phase of a refresh in this step
RefreshEnds(p) == pc[p] = "text" /\ pc'[p] # "text"
\* the payload the refresh of slot p received, and its result
FeedOf(p) == Last(calls'[p]).ans
ResultOf(p) == Last(writes'[p])

\* C18  Refresh is an atomic replacement: after any refresh attempt the table holds
\* either exactly its pre-refresh rows or exactly the rows of the new payload, and a
\* query whose refresh failed is answered from the pre-refresh rows.
C18_AtomicReplacement ==
  [][\A p \in Procs :
       RefreshEnds(p) =>
         /\ \/ kite_instruments' = kite_instruments
            \/ ~FeedOf(p).threw /\ kite_instruments' = dbRecords(FeedOf(p).feed, now)
         /\ (op[p] = "query" /\ ~ResultOf(p).success /\ resp'[p].status = "success") =>
              resp'[p] = QueryResponse(loc[p].params, kite_instruments, FALSE)]_vars

\* a refresh filled the table, a later query found it stale, its refresh failed at
\* an INSERT, and the query was answered from the emptied table
C18_EmptiedByFailedRefresh ==
  \E p, q \in Procs :
    /\ started = 2 /\ rid[q] = 1 /\ rid[p] = 2
    /\ op[q] = "refresh" /\ pc[q] = "done" /\ resp[q].status = "success"
    /\ Last(writes[q]).count >= 1
    /\ op[p] = "query" /\ pc[p] = "done" /\ resp[p].status = "success"
    /\ writes[p] # << >> /\ ~Last(writes[p]).success
    /\ Property(resp[p].data, "count") = Some(0)
    /\ kite_instruments = << >>

\* C19  Refresh atomicity on insert failure: a refresh that fails leaves the table
\* either with its pre-refresh rows or empty; one that fails in the middle of the
\* bulk insert leaves it empty, with no row of the new payload and no old row.
C19_FailedRefreshAllOrNothing ==
  [][\A p \in Procs :
       (RefreshEnds(p) /\ ~ResultOf(p).success) =>
         /\ kite_instruments' = kite_instruments \/ kite_instruments' = << >>
         /\ ResultOf(p).inserted > 0 => kite_instruments' = << >>
         /\ ResultOf(p).count = 0]_vars

\* a refresh failed after it had inserted a row
C19_Witness ==
  \E p \in Procs :
    /\ op[p] \in {"refresh", "query"} /\ pc[p] = "done"
    /\ writes[p] # << >> /\ ~Last(writes[p]).success
    /\ Last(writes[p]).inserted = 1
    /\ Last(calls[p]).endpoint = "text" /\ Last(calls[p]).ans.feed = 2
    /\ kite_instruments = << >>

\* C20  After a successful refresh, also when refreshes (manual and triggered by a
\* query) overlap, the table holds the rows of one payload, as many as the payload
\* has, all with one updated_at; in no state does it hold rows of two refreshes.
C20_OnePayloadOneTimestamp ==
  [][/\ \/ kite_instruments' = << >>
        \/ \E k \in 1..MaxFeedRows, t \in 0..MaxClock : kite_instruments' = dbRecords(k, t)
     /\ \A p \in Procs :
          (RefreshEnds(p) /\ ResultOf(p).success) =>
            /\ kite_instruments' = dbRecords(FeedOf(p).feed, now)
            /\ Len(kite_instruments') = ResultOf(p).count
            /\ ResultOf(p).count = FeedOf(p).feed
            /\ \A i \in 1..Len(kite_instruments') : kite_instruments'[i].updated_at = now]_vars

\* a refresh triggered by a query started, a manual refresh started after it and
\* filled the table, and then the first one replaced the rows with its payload
C20_Witness ==
  \E p, q \in Procs :
    /\ rid[q] < rid[p]
    /\ op[p] = "refresh" /\ pc[p] = "done" /\ Last(writes[p]).success
    /\ op[q] = "query" /\ pc[q] = "done" /\ writes[q] # << >> /\ Last(writes[q]).success
    /\ Last(writes[p]).count # Last(writes[q]).count
    /\ started = 2
    /\ Len(kite_instruments) = Last(writes[q]).count

\* a refresh of slot p is between its start and the end of its write phase
RefreshInProgress(p) == pc[p] \in {"fetch", "text"}
\* the contents the table has between refreshes: none, or the records of one payload
WholeTables ==
  { << >> } \cup { dbRecords(k, t) : k \in 1..MaxFeedRows, t \in 0..MaxClock }
\* the handler of slot p answers a query with rows in this step
QueryAnswered(p) == Returns(p) /\ op'[p] = "query" /\ resp'[p].status = "success"

\* C21  A query never reads a partly written table: the write phase of a refresh is
\* one uninterrupted stretch, so the table changes only in the step that ends a
\* refresh, and every query, also one served while a refresh of another request is
\* in progress, is answered from a table that is empty or holds one whole payload:
\* the one before that refresh's write phase, or the one after it.
C21_NoPartialTable ==
  [][/\ (\A p \in Procs : ~RefreshEnds(p)) => kite_instruments' = kite_instruments
     /\ kite_instruments' \in WholeTables
     /\ \A p \in Procs :
          QueryAnswered(p) =>
            /\ Property(resp'[p].data, "instruments")
                 = Some(SelectInstruments(kite_instruments', "exchange=NSE"))
            /\ Property(resp'[p].data, "count")
                 = Some(Len(SelectInstruments(kite_instruments', "exchange=NSE")))]_vars

\* a query is answered with the rows of an earlier refresh while the refresh of
\* another request has fetched the feed and not yet written it
C21_Witness ==
  \E p, q \in Procs :
    /\ op[p] = "query" /\ pc[p] = "done" /\ resp[p].status = "success"
    /\ calls[p] = << >>
    /\ Property(resp[p].data, "count") = Some(MaxFeedRows)
    /\ op[q] = "refresh" /\ RefreshInProgress(q) /\ pc[q] = "text" /\ rid[q] < rid[p]

\* the error texts performInstrumentsRefresh returns
RefreshErrors ==
  { "fetch failed", "Failed to fetch instruments: statusText", "text failed",
    "Invalid CSV format: no data rows", "Failed to truncate table: message",
    "Failed to insert data: message" }

\* C22  A failed refresh never aborts the query that triggered it: when the refresh
\* ends without success (fetch, text, parse or write failure), handleQuery goes on
\* to check the parameters and to run the SELECT on the table as the refresh left
\* it, and answers with that outcome; the error of the refresh is in no response to
\* a query.
C22_RefreshFailureNotFatal ==
  [][\A p \in Procs :
       (Returns(p) /\ op'[p] = "query") =>
         /\ resp'[p].message \notin RefreshErrors
         /\ (writes'[p] # << >> /\ ~Last(writes'[p]).success) =>
              /\ \E raised \in BOOLEAN :
                    resp'[p] = QueryResponse(loc[p].params, kite_instruments', raised)
              /\ (loc[p].params # "" /\ dbFaults' = dbFaults) =>
                    /\ resp'[p].status = "success"
                    /\ Property(resp'[p].data, "instruments")
                         = Some(SelectInstruments(kite_instruments', loc[p].params))]_vars

\* the table holds the rows of an earlier refresh and is stale; the fetch of the
\* refresh a query triggered failed, and the query was answered with the old rows
C22_Witness ==
  \E p \in Procs :
    /\ op[p] = "query" /\ pc[p] = "done" /\ resp[p].status = "success"
    /\ writes[p] # << >> /\ ~Last(writes[p]).success
    /\ Last(calls[p]).endpoint = "instruments"
    /\ kite_instruments # << >>
    /\ Property(resp[p].data, "count") = Some(Len(kite_instruments))

\* the fields of a timestamp string
ParseTimestamp(str) ==
  LET parts == split(str, 32)
      dateParts == split(parts[1], 45)
      timeParts == split(parts[2], 58)
  IN  [year |-> Number(dateParts[1]), month |-> Number(dateParts[2]),
       day |-> Number(dateParts[3]), hours |-> Number(timeParts[1]),
       minutes |-> Number(timeParts[2]), seconds |-> Number(timeParts[3])]
\* days from 2022-01-01 to the date of t, and seconds from then to t
RECURSIVE DaysBeforeMonth(_, _)
DaysBeforeMonth(y, m) ==
  IF m = 1 THEN 0 ELSE DaysBeforeMonth(y, m - 1) + DaysInMonth(y, m - 1)
DayNumber(t) ==
  365 * (t.year - 2022) + Cardinality({ y \in 2022..(t.year - 1) : IsLeapYear(y) })
  + DaysBeforeMonth(t.year, t.month) + (t.day - 1)
SecondsOf(t) == 86400 * DayNumber(t) + 3600 * t.hours + 60 * t.minutes + t.seconds
\* the function applied and its arguments, once it has returned
Applied(name) == fn.name = name /\ fn.result # Null

\* C24  Cutoff selection: for every current exchange-local time the cutoff is
\* 08:30:00 of the calendar day before when the time of day is before 08:30, and
\* 08:30:00 of the current day from 08:30:00 on, also across month and year ends;
\* it is a well-formed timestamp, never later than the current time and never more
\* than 24 hours before it.
C24_CutoffSelection ==
  Applied("getInstrumentsRefreshCutoff") =>
    LET t == fn.args[1]
        c == ParseTimestamp(fn.result[1])
    IN  /\ Len(fn.result[1]) = 19
        /\ fn.result[1] = FormatTimestamp(c)
        /\ c.month \in 1..12 /\ c.day \in 1..DaysInMonth(c.year, c.month)
        /\ c.hours = 8 /\ c.minutes = 30 /\ c.seconds = 0
        /\ DayNumber(c) = IF 60 * t.hours + t.minutes < 60 * 8 + 30
                          THEN DayNumber(t) - 1 ELSE DayNumber(t)
        /\ SecondsOf(c) <= SecondsOf(t)
        /\ SecondsOf(t) - SecondsOf(c) <= 86400

\* at 08:29:59 on 1 January 2024 the cutoff is 08:30:00 on 31 December 2023
C24_Witness ==
  /\ Applied("getInstrumentsRefreshCutoff")
  /\ fn.args[1] = [year |-> 2024, month |-> 1, day |-> 1, hours |-> 8, minutes |-> 29,
                   seconds |-> 59]
  /\ fn.result = Some(<< 50, 48, 50, 51, 45, 49, 50, 45, 51, 49, 32,
                         48, 56, 58, 51, 48, 58, 48, 48 >>)

\* the instant of the cutoff in force at time t, in seconds
CutoffSeconds(t) ==
  86400 * (DayNumber(t) - (IF 60 * t.hours + t.minutes < 60 * 8 + 30 THEN 1 ELSE 0))
  + 3600 * 8 + 60 * 30
\* the times of the example: 2024-01-10 09:00:00, 08:29:59 and 08:30:01
ExampleNow ==
  [year |-> 2024, month |-> 1, day |-> 10, hours |-> 9, minutes |-> 0, seconds |-> 0]
ExampleStale == [ExampleNow EXCEPT !.hours = 8, !.minutes = 29, !.seconds = 59]
ExampleFresh == [ExampleNow EXCEPT !.hours = 8, !.minutes = 30, !.seconds = 1]

AccountIds == { r.user_id : r \in kite_users }
AccountIdsAfter == { r.user_id : r \in kite_users' }
\* the handler of slot p ends a registration with success in this step
Registers(p) == Returns(p) /\ op'[p] = "register" /\ resp'[p].status = "success"

\* C25  Account upsert: kite_users never holds two rows of one user_id, also when
\* registrations of one user_id overlap; a successful registration leaves the
\* account with its password hash and TOTP secret and the other accounts as they
\* were; nothing but a successful registration changes kite_users, and no step of
\* login, logout or register removes an account.
C25_AccountUpsert ==
  [][/\ \A r1, r2 \in kite_users' : r1.user_id = r2.user_id => r1 = r2
     /\ AccountIds \subseteq AccountIdsAfter
     /\ (\A p \in Procs : ~Registers(p)) => kite_users' = kite_users
     /\ \A p \in Procs :
          Registers(p) =>
            /\ [user_id |-> loc[p].form.user_id,
                password_hash |-> PasswordHash(loc[p].form.password),
                totp_secret |-> loc[p].form.totp_secret] \in kite_users'
            /\ AccountIdsAfter = AccountIds \cup { loc[p].form.user_id }
            /\ \A r \in kite_users : r.user_id # loc[p].form.user_id => r \in kite_users']_vars

\* two registrations of one user_id overlapped: the one that started second
\* created the account, the one that started first wrote last and updated it, and
\* there is one account
C25_Witness ==
  /\ op["p1"] = "register" /\ pc["p1"] = "done" /\ resp["p1"].status = "success"
  /\ op["p2"] = "register" /\ pc["p2"] = "done" /\ resp["p2"].status = "success"
  /\ rid["p1"] = 1 /\ rid["p2"] = 2 /\ started = 2
  /\ Property(resp["p1"].data, "operation") = Some("updated")
  /\ Property(resp["p2"].data, "operation") = Some("created")
  /\ kite_users = { [user_id |-> "u1", password_hash |-> PasswordHash("pw1"),
                     totp_secret |-> << "J", "B" >>] }

\* the name=value pairs of the cookies of both responses, in the order sent
PairsOf(login, twofa) ==
  [i \in 1..(Len(login) + Len(twofa)) |->
     LET c == (login \o twofa)[i] IN c.name \o << "=" >> \o c.value]

\* C26  Cookie merge: the Cookie header built from the comma-joined Set-Cookie
\* batches of the login and the 2FA response is the name=value pairs of all their
\* cookies, in the order sent, joined by "; ", and nothing else.
C26_CookieMerge ==
  Applied("convertSetCookieToCookie") =>
    fn.result[1] = join(PairsOf(fn.args[1], fn.args[2]), << ";", " " >>)

\* a cookie whose name holds "-" came second in the login response: the header
\* holds the first cookie and the cookie of the 2FA response, and not this one
C26_CookieDropped ==
  /\ Applied("convertSetCookieToCookie")
  /\ Len(fn.args[1]) = 2 /\ Len(fn.args[2]) = 1
  /\ fn.args[1][1].name = << "a" >> /\ fn.args[1][2].name = << "x", "-", "y" >>
  /\ fn.args[2][1].name = << "c" >>
  /\ fn.result = Some(<< "a", "=", "1", ";", " ", "c", "=", "3" >>)

\* the request a step of slot p adds to the log
Sends(p) == Len(requests'[p]) = Len(requests[p]) + 1
Sent(p) == Last(requests'[p])
\* the fields of a request that hold a text of the form or of a redirect
TextFields == { "user_id", "password", "api_key", "sess_id", "request_token" }

\* C27  The token exchange is sent api_key, the request_token of the connect/finish
\* redirect of the same run, and as checksum the hexadecimal SHA-256 of api_key,
\* request_token and api_secret concatenated in this order with nothing between
\* them; no request of the run carries the api_secret itself.
C27_ChecksumOfRun ==
  [][\A p \in Procs :
       Sends(p) =>
         /\ "api_secret" \notin DOMAIN Sent(p)
         /\ loc[p].form.api_secret # "" =>
              \A f \in DOMAIN Sent(p) \cap TextFields : Sent(p)[f] # loc[p].form.api_secret
         /\ Sent(p).endpoint = "token" =>
              /\ DOMAIN Sent(p) = { "endpoint", "api_key", "request_token", "checksum" }
              /\ Last(calls[p]).endpoint = "finish" /\ Last(calls[p]).ans = Answer(302)
              /\ loc[p].form.api_key = "k1" /\ loc[p].form.api_secret = "s1"
              /\ Sent(p).api_key = "k1"
              /\ Sent(p).request_token = "t"
              /\ Sent(p).checksum = [hex |-> [sha256 |-> << "k", "1", "t", "s", "1" >>]]]_vars

\* a login went through the token exchange and was answered with the API session
C27_Witness ==
  \E p \in Procs :
    /\ op[p] = "login" /\ pc[p] = "done" /\ resp[p].status = "success"
    /\ requests[p] # << >> /\ Last(requests[p]).endpoint = "token"
    /\ Last(requests[p]).checksum = [hex |-> [sha256 |-> << "k", "1", "t", "s", "1" >>]]
    /\ [endpoint |-> "finish", api_key |-> "k1", sess_id |-> "v"]
         \in { requests[p][i] : i \in 1..Len(requests[p]) }

\* the six-digit codes of RFC 6238 (HMAC-SHA1, RFC 4226 truncation) of secret i of
\* Secrets at time-step counter
Rfc6238Code(i, counter) ==
  CASE
       i = 1 /\ counter = 0 -> << 55, 53, 53, 50, 50, 52 >>
    [] i = 1 /\ counter = 1 -> << 50, 56, 55, 48, 56, 50 >>
    [] i = 1 /\ counter = 2 -> << 51, 53, 57, 49, 53, 50 >>
    [] i = 1 /\ counter = 37037036 -> << 48, 56, 49, 56, 48, 52 >>
    [] i = 1 /\ counter = 37037037 -> << 48, 53, 48, 52, 55, 49 >>
    [] i = 1 /\ counter = 37037038 -> << 50, 54, 54, 55, 53, 57 >>
    [] i = 1 /\ counter = 41152263 -> << 48, 48, 53, 57, 50, 52 >>
    [] i = 1 /\ counter = 41152264 -> << 53, 57, 48, 53, 56, 55 >>
    [] i = 1 /\ counter = 66666666 -> << 50, 55, 57, 48, 51, 55 >>
    [] i = 1 /\ counter = 66666667 -> << 54, 51, 55, 48, 48, 57 >>
    [] i = 2 /\ counter = 0 -> << 55, 53, 53, 50, 50, 52 >>
    [] i = 2 /\ counter = 1 -> << 50, 56, 55, 48, 56, 50 >>
    [] i = 2 /\ counter = 2 -> << 51, 53, 57, 49, 53, 50 >>
    [] i = 2 /\ counter = 37037036 -> << 48, 56, 49, 56, 48, 52 >>
    [] i = 2 /\ counter = 37037037 -> << 48, 53, 48, 52, 55, 49 >>
    [] i = 2 /\ counter = 37037038 -> << 50, 54, 54, 55, 53, 57 >>
    [] i = 2 /\ counter = 41152263 -> << 48, 48, 53, 57, 50, 52 >>
    [] i = 2 /\ counter = 41152264 -> << 53, 57, 48, 53, 56, 55 >>
    [] i = 2 /\ counter = 66666666 -> << 50, 55, 57, 48, 51, 55 >>
    [] i = 2 /\ counter = 66666667 -> << 54, 51, 55, 48, 48, 57 >>
    [] i = 3 /\ counter = 0 -> << 50, 56, 50, 55, 54, 48 >>
    [] i = 3 /\ counter = 1 -> << 57, 57, 54, 53, 53, 52 >>
    [] i = 3 /\ counter = 2 -> << 54, 48, 50, 50, 56, 55 >>
    [] i = 3 /\ counter = 37037036 -> << 48, 55, 49, 50, 55, 49 >>
    [] i = 3 /\ counter = 37037037 -> << 51, 53, 56, 52, 54, 50 >>
    [] i = 3 /\ counter = 37037038 -> << 52, 57, 48, 54, 51, 53 >>
    [] i = 3 /\ counter = 41152263 -> << 55, 52, 50, 50, 55, 53 >>
    [] i = 3 /\ counter = 41152264 -> << 56, 51, 53, 50, 50, 55 >>
    [] i = 3 /\ counter = 66666666 -> << 56, 57, 48, 54, 57, 57 >>
    [] i = 3 /\ counter = 66666667 -> << 54, 50, 48, 55, 49, 48 >>
    [] i = 4 /\ counter = 0 -> << 50, 56, 50, 55, 54, 48 >>
    [] i = 4 /\ counter = 1 -> << 57, 57, 54, 53, 53, 52 >>
    [] i = 4 /\ counter = 2 -> << 54, 48, 50, 50, 56, 55 >>
    [] i = 4 /\ counter = 37037036 -> << 48, 55, 49, 50, 55, 49 >>
    [] i = 4 /\ counter = 37037037 -> << 51, 53, 56, 52, 54, 50 >>
    [] i = 4 /\ counter = 37037038 -> << 52, 57, 48, 54, 51, 53 >>
    [] i = 4 /\ counter = 41152263 -> << 55, 52, 50, 50, 55, 53 >>
    [] i = 4 /\ counter = 41152264 -> << 56, 51, 53, 50, 50, 55 >>
    [] i = 4 /\ counter = 66666666 -> << 56, 57, 48, 54, 57, 57 >>
    [] i = 4 /\ counter = 66666667 -> << 54, 50, 48, 55, 49, 48 >>
    [] i = 5 /\ counter = 0 -> << 56, 49, 50, 56, 50, 50 >>
    [] i = 5 /\ counter = 1 -> << 48, 54, 49, 54, 48, 48 >>
    [] i = 5 /\ counter = 2 -> << 51, 50, 53, 49, 49, 52 >>
    [] i = 5 /\ counter = 37037036 -> << 57, 54, 56, 52, 51, 49 >>
    [] i = 5 /\ counter = 37037037 -> << 52, 53, 51, 49, 51, 56 >>
    [] i = 5 /\ counter = 37037038 -> << 53, 48, 54, 48, 50, 52 >>
    [] i = 5 /\ counter = 41152263 -> << 55, 51, 56, 57, 49, 52 >>
    [] i = 5 /\ counter = 41152264 -> << 53, 51, 56, 57, 54, 57 >>
    [] i = 5 /\ counter = 66666666 -> << 50, 54, 53, 56, 51, 50 >>
    [] i = 5 /\ counter = 66666667 -> << 55, 50, 51, 52, 54, 54 >>

\* C28  generateTotpValue returns, for a secret of the base32 alphabet, exactly six
\* decimal digits, zero-padded: the RFC 6238 code (HMAC-SHA1, RFC 4226 dynamic
\* truncation modulo 1,000,000) of the decoded secret and the time step
\* floor(time / 30); every time of one step gives the same code, and upper and
\* lower case and padding of the secret make no difference.
C28_TotpCode ==
  (Applied("generateTotpValue") /\ fn.args[1] < Len(Secrets)) =>
    LET code == fn.result[1].value
    IN  /\ ~fn.result[1].threw
        /\ Len(code) = 6 /\ \A k \in 1..6 : code[k] \in 48..57
        /\ code = Rfc6238Code(fn.args[1], fn.args[2] \div 30)
        /\ code = generateTotpValueAt(Secrets[fn.args[1]], 30 * (fn.args[2] \div 30)).value
        /\ code = generateTotpValueAt(Secrets[fn.args[1]], 30 * (fn.args[2] \div 30) + 29).value

\* the RFC 6238 vector at time 1111111109 (code 07081804, six digits 081804)
C28_Witness ==
  /\ Applied("generateTotpValue")
  /\ fn.args = << 1, 1111111109 >>
  /\ fn.result[1].value = << 48, 56, 49, 56, 48, 52 >>

C31_StampedAtStart ==
  [][\A p \in Procs :
       (RefreshEnds(p) /\ ResultOf(p).success) =>
         \A i \in 1..Len(kite_instruments') : kite_instruments'[i].updated_at = began[p]]_vars

\* C31  amended: the timestamp of a refresh is taken once, after the feed was
\* fetched, read and parsed and right before the table is written: every row of a
\* successful refresh carries the time of the write phase, which is not before the
\* start of the refresh and may be after it.
C31_StampedOnceBeforeWrite ==
  [][\A p \in Procs :
       (RefreshEnds(p) /\ ResultOf(p).success) =>
         /\ now' = now /\ began[p] <= now
         /\ Len(kite_instruments') = FeedOf(p).feed
         /\ \A i \in 1..Len(kite_instruments') : kite_instruments'[i].updated_at = now]_vars

\* a refresh that started at instant 0 wrote two rows stamped with instant 1
C31_Witness ==
  \E p \in Procs :
    /\ op[p] = "refresh" /\ pc[p] = "done" /\ Last(writes[p]).success
    /\ began[p] = 0 /\ started = 1
    /\ Len(kite_instruments) = 2
    /\ \A i \in 1..2 : kite_instruments[i].updated_at = 1

\* C32  every session belongs to a registered account and is stored under the
\* user_id of the login request: the row a login inserts names the account the
\* request was made for, that account is registered, and the lookup of the latest
\* session of that account returns the row.
C32_StoredUnderRequestedAccount ==
  [][\A p \in Procs :
       (op[p] = "login" /\ pc[p] \in {"token", "profile"} /\ pc'[p] = "done"
        /\ Len(kite_sessions') > Len(kite_sessions)) =>
         LET row == Last(kite_sessions')
             u == loc[p].form.user_id
         IN  /\ row.user_id = u
             /\ SelectUser(row.user_id) # {}
             /\ Some(row) \in { Some(r) : r \in { kite_sessions'[i] : i \in RowsOfAfter(u) } }
             /\ \A o \in { kite_sessions'[i] : i \in RowsOfAfter(u) } :
                  o.created_at <= row.created_at]_vars

\* a login for account u1 succeeded and its session is stored under u2, which is
\* not registered; account u1 has no session
C32_StoredUnderBrokerId ==
  /\ op["p1"] = "login" /\ pc["p1"] = "done" /\ resp["p1"].status = "success"
  /\ account["p1"] = "u1"
  /\ Len(kite_sessions) = 1
  /\ kite_sessions[1].user_id = "u2"
  /\ SelectUser("u2") = {}
  /\ GetLatest("u1") = { Null }

\* the credentials of the login of slot p differ from the account record it read
FailsLocalCheck(p) ==
  \/ loc[p].userRecord[1].password_hash # PasswordHash(loc[p].form.password)
  \/ loc[p].userRecord[1].totp_secret # loc[p].form.totp_secret

\* C33  The local credential check precedes everything else in a login: a login for
\* an unregistered user_id ends in the step that reads the account, and a login
\* whose password does not verify against the hash of the account, or whose
\* totp_secret differs from the account's, ends in the step after the password
\* check; both with an AuthenticationException, without a read of the sessions,
\* without any upstream request and without a write, and never with a payload. A
\* login that is past the check presented the credentials of the account.
C33_LocalCheckFirst ==
  [][\A p \in Procs :
       /\ (rid'[p] # rid[p] /\ op'[p] = "login" /\ SelectUser(account'[p]) = {}) =>
            /\ pc'[p] = "done"
            /\ resp'[p].status = "error" /\ resp'[p].data = NoData
            /\ resp'[p].error_type # "InputException" => resp'[p] = authError("Invalid credentials")
            /\ calls'[p] = << >> /\ writes'[p] = << >>
            /\ kite_sessions' = kite_sessions /\ dbFaults' = dbFaults
       /\ (op[p] = "login" /\ pc[p] = "verify" /\ pc'[p] # "verify" /\ FailsLocalCheck(p)) =>
            /\ pc'[p] = "done"
            /\ resp'[p] = authError("Invalid credentials")
            /\ calls'[p] = << >> /\ writes'[p] = << >>
            /\ kite_sessions' = kite_sessions /\ dbFaults' = dbFaults
            /\ windowLogins' = windowLogins
       /\ (op[p] = "login" /\ pc[p] \notin {"idle", "done", "verify"}) =>
            /\ ~FailsLocalCheck(p)
            /\ SelectUser(loc[p].form.user_id) # {}]_vars

\* a login with the wrong password or secret was refused although the account has
\* a session with an enctoken, which was not probed
C33_Witness ==
  /\ op["p1"] = "login" /\ pc["p1"] = "done"
  /\ resp["p1"] = authError("Invalid credentials")
  /\ calls["p1"] = << >>
  /\ SelectUser(account["p1"]) # {}
  /\ \E row \in GetLatest(account["p1"]) : Probeable(row)

\* the login of slot p is answered from the cache in this step
CacheHitStep(p) ==
  op[p] = "login" /\ pc[p] = "probe" /\ pc'[p] = "done" /\ resp'[p].status = "success"
\* the credentials of the login that stored session row
ObtainedWith(row) == obtained[row.enctoken[1]]

\* C34 as stated: a login is answered from the cache only when it presents the
\* password and the totp_secret that the login which stored the session presented.
C34_CachedUnderSameCredentials ==
  [][\A p \in Procs :
       CacheHitStep(p) =>
         /\ ObtainedWith(loc[p].existing[1]) # Null
         /\ ObtainedWith(loc[p].existing[1])[1].password = loc[p].form.password
         /\ ObtainedWith(loc[p].existing[1])[1].totp_secret = loc[p].form.totp_secret]_vars

\* C34  amended: a login is answered from the cache only when it presents the
\* password and the totp_secret stored for the account at the time of the login;
\* the payload is that of the latest session of the account, which a login with
\* other credentials may have stored before the account was registered again.
C34_CachedUnderStoredCredentials ==
  [][\A p \in Procs :
       CacheHitStep(p) =>
         /\ loc[p].userRecord[1].password_hash = PasswordHash(loc[p].form.password)
         /\ loc[p].userRecord[1].totp_secret = loc[p].form.totp_secret
         /\ loc[p].userRecord \in { Some(r) : r \in SelectUser(loc[p].form.user_id) }
         /\ Some(loc[p].existing[1]) \in GetLatest(loc[p].form.user_id)
         /\ resp'[p].data = loc[p].existing[1].kite_session
         /\ ObtainedWith(loc[p].existing[1]) # Null]_vars

\* account u1 was registered again with another totp_secret, and a login with the
\* new secret was answered with the payload a login with the old secret had stored
C34_Witness ==
  /\ CacheHit("p1") /\ account["p1"] = "u1"
  /\ \E r \in SelectUser("u1") : r.totp_secret = << "J", "!" >>
  /\ \E row \in GetLatest("u1") :
       /\ row # Null /\ Truthy(row[1].enctoken)
       /\ row[1].kite_session = resp["p1"].data
       /\ ObtainedWith(row[1]) # Null
       /\ ObtainedWith(row[1])[1].totp_secret = << "J", "B" >>

\* C35  A cache hit does not depend on the variant of the request: whether or not
\* the form carries api_key and api_secret, a login that passed the credential
\* check probes the latest session of the account exactly when it has an enctoken,
\* and a probe answered 200 returns the stored payload of that session with no
\* other upstream request; so a login with API credentials gets the payload of an
\* OMS session (no access_token in it, no handshake), and a login without them gets
\* the payload of an API session.
C35_CacheHitAnyVariant ==
  [][\A p \in Procs :
       /\ (op[p] = "login" /\ pc[p] = "verify" /\ pc'[p] \notin {"verify", "done"}) =>
            /\ loc'[p].existing \in GetLatest(loc[p].form.user_id)
            /\ pc'[p] = "probe" <=> Probeable(loc'[p].existing)
       /\ (op[p] = "login" /\ pc[p] = "probe" /\ pc'[p] # "probe"
           /\ Last(calls'[p]).ans = Answer(200)) =>
            LET row == loc[p].existing[1]
            IN  /\ pc'[p] = "done" /\ resp'[p].status = "success"
                /\ resp'[p].data = row.kite_session
                /\ \A i \in 1..Len(calls'[p]) : calls'[p][i].endpoint = "probe"
                /\ kite_sessions' = kite_sessions
                /\ (UsesApiDriver(loc[p].form) /\ row.login_type = "OMS") =>
                     Property(resp'[p].data, "access_token") = Null
                /\ (~UsesApiDriver(loc[p].form) /\ row.login_type = "API") =>
                     Property(resp'[p].data, "access_token") # Null]_vars

\* a login with api_key and api_secret read an OMS session as the latest of its
\* account and sent the probe, not the login POST
C35_Witness ==
  /\ op["p1"] = "login" /\ pc["p1"] = "probe"
  /\ UsesApiDriver(loc["p1"].form)
  /\ loc["p1"].existing[1].login_type = "OMS"
  /\ Property(loc["p1"].existing[1].kite_session, "access_token") = Null
  /\ calls["p1"] = << >>

\* the upstream invalidation was requested for the API token of row by slot p
InvalidationSent(p, row) ==
  \E j \in 1..Len(requests'[p]) :
    /\ requests'[p][j].endpoint = "invalidate"
    /\ requests'[p][j].api_key = Text(row.api_key)
    /\ requests'[p][j].access_token = row.access_token

\* C36  every API access token whose session a logout deletes has had its upstream
\* invalidation requested by that logout: each row of the account that the DELETE
\* removes and that holds an api_key and an access_token is named by a DELETE
\* request of the same logout, older rows and rows inserted while the logout was
\* waiting included.
C36_DeletedTokensInvalidated ==
  [][\A p \in Procs :
       (op'[p] = "logout" /\ Returns(p) /\ kite_sessions' # kite_sessions) =>
         \A i \in RowsOf(account'[p]) :
           HasApiToken(kite_sessions[i]) => InvalidationSent(p, kite_sessions[i])]_vars

\* a logout read the latest session of its account and requested the invalidation
\* of its token; a login of the same account that ran meanwhile stored a session
\* with another access token; the logout then deleted both rows
C36_TokenDeletedNotInvalidated ==
  /\ op["p1"] = "logout" /\ pc["p1"] = "done" /\ resp["p1"].status = "success"
  /\ op["p2"] = "login" /\ pc["p2"] = "done" /\ resp["p2"].status = "success"
  /\ account["p1"] = account["p2"]
  /\ rid["p1"] < rid["p2"]
  /\ Last(writes["p1"]).stmt = "delete" /\ Last(writes["p1"]).changes = 2
  /\ writes["p2"] # << >> /\ Last(writes["p2"]).changes = 1
  /\ Property(resp["p2"].data, "access_token") # Null
  /\ Len(requests["p1"]) = 1
  /\ requests["p1"][1].access_token # Property(resp["p2"].data, "access_token")
  /\ RowsOf(account["p1"]) = {}

\* the row is still in kite_sessions
StillStored(row) == \E i \in 1..Len(kite_sessions) : kite_sessions[i] = row

\* slot q resumes its logout after the upstream invalidation
LogoutResumes(q) == op[q] = "logout" /\ pc[q] = "invalidate" /\ Returns(q)

\* C37 (as stated)  when two logouts of one account overlap, at most one of them
\* returns success: a logout that resumes after another logout has deleted the
\* session it read (that logout answered success) does not answer success.
C37_AtMostOneSucceeds ==
  [][\A q \in Procs :
       (LogoutResumes(q) /\ ~StillStored(loc[q].existing[1])) =>
         resp'[q].status # "success"]_vars

\* C37  when two logouts of one account overlap, the one whose DELETE finds no
\* remaining record of the account answers the AuthenticationException "No session
\* found to delete"; after the other logout has deleted the session it read, it
\* answers success only if a session was stored for the account in between.
C37_SecondLogoutFindsNothing ==
  [][\A q \in Procs :
       LogoutResumes(q) =>
         /\ RowsOf(account[q]) = {} =>
              resp'[q] = authError("No session found to delete")
         /\ RowsOf(account[q]) # {} => resp'[q].status = "success"
         /\ (StillStored(loc[q].existing[1]) => RowsOf(account[q]) # {})]_vars

\* two logouts of one account read the same session and both requested the
\* invalidation of its token; one answered success, the other found nothing to
\* delete
C37_Witness ==
  /\ op["p1"] = "logout" /\ op["p2"] = "logout"
  /\ pc["p1"] = "done" /\ pc["p2"] = "done"
  /\ account["p1"] = account["p2"]
  /\ requests["p1"] # << >> /\ requests["p1"] = requests["p2"]
  /\ calls["p1"] # << >> /\ calls["p2"] # << >>
  /\ resp["p1"].status = "success"
  /\ resp["p2"] = authError("No session found to delete")

\* performInstrumentsRefresh returns success in slot p
RefreshSucceeds(p) == RefreshEnds(p) /\ ResultOf(p).stmt = "refresh" /\ ResultOf(p).success

\* a query of slot p starts the refresh
QueryTriggersRefresh(p) ==
  started' # started /\ rid'[p] = started' /\ op'[p] = "query" /\ pc'[p] = "fetch"

\* no cutoff is reached in the step
SameCutoff == getInstrumentsRefreshCutoff' = getInstrumentsRefreshCutoff

OmsOrder == << "login", "twofa", "profile" >>

\* the endpoints slot p has called, without the validity probe at the head
AfterProbe(p) ==
  LET e == [i \in 1..Len(calls[p]) |-> calls[p][i].endpoint]
  IN  IF e # << >> /\ e[1] = "probe" THEN Tail(e) ELSE e

\* at most one validity probe, first, then at most five further calls, each
\* endpoint at most once
CallBound(p) ==
  /\ Len(calls[p]) <= 6
  /\ Len(AfterProbe(p)) <= 5
  /\ \A i \in 1..Len(AfterProbe(p)) : AfterProbe(p)[i] # "probe"
  /\ IsPrefix(AfterProbe(p), ApiOrder) \/ IsPrefix(AfterProbe(p), OmsOrder)

\* C39  every login terminates with exactly one response provided every upstream
\* call eventually answers or fails: a login in flight eventually returns; it has a
\* response exactly when it has returned, and the response stays as returned; it
\* makes at most one validity probe followed by at most five further upstream calls
\* (login, 2FA, then either the profile fetch or connect, connect/finish and token
\* exchange), none of them twice.
C39_LoginTerminates ==
  /\ [](\A p \in Procs : op[p] = "login" =>
          /\ CallBound(p)
          /\ (pc[p] = "done") <=> (resp[p] # NoResp))
  /\ [][\A p \in Procs :
          (op[p] = "login" /\ pc[p] = "done" /\ rid'[p] = rid[p]) =>
            (pc'[p] = "done" /\ resp'[p] = resp[p])]_vars
  /\ \A p \in Procs : (op[p] = "login" /\ pc[p] # "done") ~> (pc[p] = "done")

\* a login returned success after the probe of the stored session and the five
\* calls of the API driver
C39_Witness ==
  /\ op["p1"] = "login" /\ pc["p1"] = "done" /\ resp["p1"].status = "success"
  /\ Len(calls["p1"]) = 6
  /\ calls["p1"][1].endpoint = "probe"
  /\ AfterProbe("p1") = ApiOrder

====
